---- MODULE Spec2Model ----
(***************************************************************************)
(* Model of itermultipart.Source, the streaming multipart/form-data        *)
(* encoder: its incremental Read, bulk WriteTo, SetBoundary, Close and     *)
(* Reset, over a lazily pulled sequence of (Part, error) items.            *)
(*                                                                         *)
(* Byte strings are TLA+ strings: one character is one byte, except the    *)
(* character UUml, which stands for a two-byte UTF-8 sequence.             *)
(***************************************************************************)
EXTENDS Integers, Sequences, FiniteSets, TLC

\* ------------------------------------------------------------------ bounds

\* Longest part sequence handed to NewSource / Reset.
MaxParts == 2
\* The short caller buffer length passed to Read: shorter than any heading.
SmallBuf == 5
\* Number of Reset calls explored in one behaviour.
MaxResets == 1

\* ------------------------------------------------------- program constants

\* len(randBoundary): the number of random bytes behind a generated boundary.
RandLen == 30
\* rfc2046 upper limit on the boundary length checked by SetBoundary.
MaxBoundaryLen == 70

\* ------------------------------------------------------------ byte strings

CRLF == "\r\n"
Dashes == "--"
ColonSpace == ": "

\* The printable ASCII characters, in code order from 32 (space) to 126; a tab
\* holds the places of the double quote (34) and the backquote (96).
Printable == " !\t#$%&'()*+,-./0123456789:;<=>?@ABCDEFGHIJKLMNOPQRSTUVWXYZ[\\]^_\tabcdefghijklmnopqrstuvwxyz{|}~"
\* Stands for the rune U+00FC of a non-ASCII boundary such as "ungültig".
UUml == "\f"

At(s, i) == SubSeq(s, i, i)
PrintableChars == [i \in 1..Len(Printable) |-> At(Printable, i)]

\* The code point of a character.
Ord(c) ==
    CASE c = "\r" -> 13
      [] c = "\n" -> 10
      [] c = UUml -> 252
      [] OTHER -> 31 + (CHOOSE i \in 1..Len(Printable) : PrintableChars[i] = c)

\* Bytes of the UTF-8 encoding of a character, and len(s) of a Go string.
Width(c) == IF c = UUml THEN 2 ELSE 1
RECURSIVE ByteLen(_)
ByteLen(s) == IF s = "" THEN 0 ELSE Width(Head(s)) + ByteLen(Tail(s))

Min(a, b) == IF a < b THEN a ELSE b

Take(s, n) == SubSeq(s, 1, Min(n, Len(s)))
Drop(s, n) == SubSeq(s, Min(n, Len(s)) + 1, Len(s))

RECURSIVE Repeat(_, _)
Repeat(c, n) == IF n = 0 THEN "" ELSE c \o Repeat(c, n - 1)

\* Go's < on strings: bytewise lexicographic order.
StrLess(a, b) ==
    \E i \in 1..(Min(Len(a), Len(b)) + 1) :
        /\ \A j \in 1..(i - 1) : At(a, j) = At(b, j)
        /\ \/ i > Len(a) /\ i <= Len(b)
           \/ i <= Len(a) /\ i <= Len(b) /\ Ord(At(a, i)) < Ord(At(b, i))

RECURSIVE Concat(_)
Concat(ss) == IF ss = <<>> THEN "" ELSE Head(ss) \o Concat(Tail(ss))

\* ------------------------------------------------------------------- parts

\* Header keys and values used by the sample parts.
KeyA == "A"
KeyB == "B"
NoHeader == [k \in {} |-> <<>>]

\* A Part: Header (key -> values in insertion order) and Content, a reader of
\* the given kind over the given bytes:
\*   "bytes"  strings.Reader / bytes.Reader (SetContentString, SetContentBytes)
\*   "plain"  an io.Reader without WriteTo that reports io.EOF together with
\*            its final bytes
\*   "failing" errorReader: every Read returns (0, err), err kept in the item
\*   "broken" an io.Reader that reports err, kept in the item, together with
\*            its final bytes and from then on
PartItem(h, kind, c) ==
    [isErr |-> FALSE, err |-> "nil", header |-> h, ckind |-> kind, content |-> c]
\* A sequence item (nil, err), for two different errors.
ErrItem ==
    [isErr |-> TRUE, err |-> "seqerr", header |-> NoHeader, ckind |-> "none", content |-> ""]
ErrOther == [ErrItem EXCEPT !.err = "seqerr2"]
\* A part whose content is an errorReader.
PartFailing == [PartItem(NoHeader, "failing", "") EXCEPT !.err = "readerr"]

\* A part whose content breaks off with an error after two bytes.
PartBroken == [PartItem(NoHeader, "broken", "fo") EXCEPT !.err = "readerr"]

PartFoo == PartItem(NoHeader, "bytes", "fo")
PartSorted == PartItem([k \in {KeyA, KeyB} |-> IF k = KeyA THEN <<"2">> ELSE <<"7", "5">>],
                       "bytes", "x")
PartEmpty == PartItem(NoHeader, "bytes", "")
PartPlain == PartItem(NoHeader, "plain", "p")
PartBare == PartItem([k \in {KeyA, KeyB} |-> IF k = KeyA THEN <<"1">> ELSE <<"3">>],
                     "bytes", "")

Items == {PartFoo, PartEmpty, PartPlain, ErrItem}

RECURSIVE SeqsUpTo(_, _)
SeqsUpTo(S, n) ==
    IF n = 0 THEN {<<>>}
    ELSE LET shorter == SeqsUpTo(S, n - 1)
         IN  shorter \cup {Append(s, x) : s \in {t \in shorter : Len(t) = n - 1}, x \in S}

\* iter.Seq2[*Part, error] values given to NewSource and Reset.
PartLists == SeqsUpTo(Items, MaxParts)

\* A caller buffer longer than every message of the model.
OneShot == 8 * MaxBoundaryLen
\* len(p) values passed to Read: empty, short, and the whole message at once.
BufSizes == {0, SmallBuf, OneShot}

\* ------------------------------------------------------------------ source

VARIABLES
    boundary,             \* s.boundary
    parts,                \* s.parts
    pullSet,              \* s.pull != nil (and s.stop != nil)
    pullSeq,              \* the sequence iter.Pull2 was started on
    pullPos,              \* items the pull iterator has yielded
    pullDone,             \* the pull iterator has finished or was stopped
    buffered,             \* s.buffered: staged heading / trailer bytes
    firstHeadingWritten,  \* s.firstHeadingWritten
    lastPart,             \* s.lastPart: index of the active part, 0 for nil
    finalizing,           \* s.finalizing
    closed,               \* s.closed
    cpos,                 \* per part of s.parts: bytes consumed from its Content
    emit,                 \* history: what Read delivered, as tagged segments
    res,                  \* history: the last call and what it returned
    started,              \* history: Read or WriteTo ran since NewSource / Reset
    contentOut,           \* history: a content byte was produced since then
    resets                \* history: number of Reset calls

srcVars == <<boundary, parts, pullSet, pullSeq, pullPos, pullDone, buffered,
             firstHeadingWritten, lastPart, finalizing, closed, cpos>>
histVars == <<emit, res, started, contentOut, resets>>
vars == <<srcVars, histVars>>

\* A Part, and the package variable its accessors share.
VARIABLES
    Header,               \* p.Header: key -> values
    disposition,          \* p.disposition
    dispositionParams,    \* p.dispositionParams: nil, emptyParams, or a map of its own
    emptyParams,          \* the package-level map emptyParams
    call,                 \* the last call on the Part and what it returned
    Content,              \* p.Content
    got,                  \* the bytes read from p.Content since it was set
    dec                   \* a run of the sequence PartsFromReader returns

nameVars == <<Header, disposition, dispositionParams, emptyParams, call>>
contentVars == <<Content, got>>
partVars == <<nameVars, contentVars, dec>>
\* What the methods of a Part leave alone.
otherVars == <<vars, dec>>

\* What a call returned: the operation, its byte count and error, len(p) for
\* Read, the argument of SetBoundary, the items taken from the part sequence
\* during the call, for WriteTo the bytes that reached the sink (tagged like
\* emit), and whether the call invoked s.stop.
Result(op, n, err, plen, arg, pulled, sink) ==
    [op |-> op, n |-> n, err |-> err, plen |-> plen, arg |-> arg,
     pulled |-> pulled, sink |-> sink, stopped |-> FALSE]

\* fmt.Sprintf("%x", b) of one byte: two lowercase hexadecimal digits.
HexDigit(d) == At("0123456789abcdef", d + 1)
\* A byte in hexadecimal without its leading zero.
HexByteShort(b) == IF b < 16 THEN HexDigit(b) ELSE HexDigit(b \div 16) \o HexDigit(b % 16)
HexByte(b) == HexDigit(b \div 16) \o HexDigit(b % 16)
Hex(bs) == Concat([i \in 1..Len(bs) |-> HexByte(bs[i])])

\* Outcomes of io.ReadFull(rand.Reader, s.randBoundary[:]) that are explored:
\* in NewSource, and in Reset (the same bytes again, or others).
InitSeeds == {7}
RandSeeds == {7, 200}
RandBytes(seed) == [i \in 1..RandLen |-> (seed * i) % 256]

populateRandomBoundary(seed) == Hex(RandBytes(seed))

\* The earlier populateRandomBoundary, s.randBoundary a slice rb that is made
\* with 30 bytes when it is nil (<<>>) and filled by io.ReadFull.
populateRandomBoundarySlice(rb, seed) ==
    LET n == IF rb = <<>> THEN 30 ELSE Len(rb)
    IN  Hex([i \in 1..n |-> RandBytes(seed)[i]])

\* The keys in descending order: what the heading must not use.
RECURSIVE KeysDescending(_)
KeysDescending(ks) ==
    IF ks = {} THEN <<>>
    ELSE LET m == CHOOSE x \in ks : \A y \in ks \ {x} : StrLess(y, x)
         IN  <<m>> \o KeysDescending(ks \ {m})

\* slices.Sorted(maps.Keys(header)).
RECURSIVE SortedKeys(_)
SortedKeys(ks) ==
    IF ks = {} THEN <<>>
    ELSE LET m == CHOOSE x \in ks : \A y \in ks \ {x} : StrLess(x, y)
         IN  <<m>> \o SortedKeys(ks \ {m})

HeaderLine(k, v) == CRLF \o k \o ColonSpace \o v
KeyLines(h, k) == Concat([i \in 1..Len(h[k]) |-> HeaderLine(k, h[k][i])])
HeaderLines(h) ==
    LET ks == SortedKeys(DOMAIN h)
    IN  Concat([i \in 1..Len(ks) |-> KeyLines(h, ks[i])])

\* A heading that opens with a line break even for the first part.
HeadingAlwaysBreaks(fhw, b, h) ==
    CRLF \o Dashes \o b \o HeaderLines(h) \o CRLF \o CRLF

\* The bytes populatePartHeading leaves in s.buffered.
populatePartHeading(fhw, b, h) ==
    (IF ~fhw THEN Dashes ELSE CRLF \o Dashes) \o b \o HeaderLines(h) \o CRLF \o CRLF

\* The bytes populateEnding leaves in s.buffered.
populateEnding(b) == CRLF \o Dashes \o b \o Dashes \o CRLF

\* (*bytes.Buffer).Read(p) on a buffer holding buf, len(p) = k.
BufferRead(buf, k) ==
    IF buf = ""
    THEN [n |-> 0, err |-> IF k = 0 THEN "nil" ELSE "EOF", rest |-> ""]
    ELSE [n |-> Min(k, Len(buf)), err |-> "nil", rest |-> Drop(buf, k)]

\* A content reader that never reports io.EOF.
ContentReadEndless(item, pos, k) ==
    [n |-> Min(k, Len(item.content) - pos), err |-> "nil"]

\* part.Content.Read(p) with len(p) = k, pos bytes already consumed.
ContentRead(item, pos, k) ==
    LET rem == Len(item.content) - pos
        n == Min(k, rem)
    IN  CASE item.ckind = "failing" -> [n |-> 0, err |-> item.err]
          [] item.ckind = "broken" /\ n = rem -> [n |-> n, err |-> item.err]
          [] rem = 0 -> [n |-> 0, err |-> "EOF"]
          [] item.ckind = "plain" /\ n = rem -> [n |-> n, err |-> "EOF"]
          [] OTHER -> [n |-> n, err |-> "nil"]

\* History: append delivered bytes to the tagged record of the stream.
Emit(e, kind, idx, bytes) ==
    IF bytes = "" THEN e
    ELSE IF e # <<>> /\ e[Len(e)].kind = kind /\ e[Len(e)].part = idx
         THEN [e EXCEPT ![Len(e)].bytes = @ \o bytes]
         ELSE Append(e, [kind |-> kind, part |-> idx, bytes |-> bytes])

\* The bytes of a tagged record, in order.
Flat(e) == Concat([i \in 1..Len(e) |-> e[i].bytes])

\* All bytes Read has delivered since NewSource / Reset.
Out == Flat(emit)

\* NewSource(parts), parts one of lists.
NewSource(lists) ==
    /\ parts \in lists
    /\ \E seed \in InitSeeds : boundary = populateRandomBoundary(seed)
    /\ pullSet = FALSE
    /\ pullSeq = <<>>
    /\ pullPos = 0
    /\ pullDone = FALSE
    /\ buffered = ""
    /\ firstHeadingWritten = FALSE
    /\ lastPart = 0
    /\ finalizing = FALSE
    /\ closed = FALSE
    /\ cpos = [i \in 1..Len(parts) |-> 0]
    /\ emit = <<>>
    /\ res = Result("NewSource", 0, "nil", 0, "", 0, <<>>)
    /\ started = FALSE
    /\ contentOut = FALSE
    /\ resets = 0

\* A map[string]string without entries, and the references a
\* map[string]string field can hold: nil, the shared emptyParams, or a map of
\* its own with contents m.
NoParams == [k \in {} |-> ""]
NilParams == [ref |-> "nil", m |-> NoParams]
SharedParams == [ref |-> "emptyParams", m |-> NoParams]
OwnParams(m) == [ref |-> "map", m |-> m]

\* What a call on the Part did: the method, its argument, the string it
\* returned, whether it panicked, the argument of the SetFormName call it
\* came directly after ("" after any other call), and the Content-Type values
\* of the header when it was made.
PartCall(op, arg, ret, fault) ==
    [op |-> op, arg |-> arg, ret |-> ret, fault |-> fault,
     after |-> IF call.op = "SetFormName" THEN call.arg ELSE "",
     ctype |-> IF "Content-Type" \in DOMAIN Header THEN Header["Content-Type"] ELSE <<>>]

\* p.Content: nil, or a reader over the bytes data of which pos are consumed:
\*   "bytes"  strings.Reader / bytes.Reader
\*   "plain"  an io.Reader that reports io.EOF together with its final bytes
\*   "bufio"  the bufio.Reader DetectContentType puts around the reader of
\*            kind under, holding the bytes buf and the sticky error err
NilContent ==
    [kind |-> "nil", data |-> "", pos |-> 0, under |-> "nil", buf |-> "", err |-> "nil"]

\* Errors are chains: an error, then what it wraps. errors.Is(err, target)
\* finds target anywhere in the chain.
NoError == <<>>
\* An errors.Is that takes every error for the target.
ErrorsIsAny(err, target) == err # NoError
ErrorsIs(err, target) == \E i \in 1..Len(err) : err[i] = target

\* No sequence of PartsFromReader is being consumed.
NoDecoder ==
    [wire |-> <<>>, end |-> NoError, reqerr |-> NoError, next |-> 1, pc |-> "none",
     yields |-> <<>>, open |-> {}, stopped |-> FALSE]

\* NewPart(), in a program that has not touched emptyParams.
NewPart ==
    /\ dec = NoDecoder
    /\ Content = NilContent
    /\ got = ""
    /\ Header = NoHeader
    /\ disposition = ""
    /\ dispositionParams = NilParams
    /\ emptyParams = NoParams
    /\ call = [op |-> "NewPart", arg |-> "", ret |-> "", fault |-> FALSE,
               after |-> "", ctype |-> <<>>]

Init == NewSource(PartLists) /\ NewPart

\* An error of the sequence replaced by another one.
errorReplaced(item) == "EOF"

\* The err of `part, err, ok := s.pull()` and of `for part, err := range s.parts`.
seqError(item) == item.err

\* A Read that pulls although a part is active.
pullEager(lp, fin) == ~fin

\* The guard of the pull in Read: `s.lastPart == nil && !s.finalizing`.
pullNeeded(lp, fin) == lp = 0 /\ ~fin

\* A Read that keeps the content's error to itself.
readErrorHidden(err) == "nil"

\* What Read returns for the readErr of s.lastPart.Content.Read(p): nil for
\* io.EOF, readErr otherwise.
readError(err) == IF err = "EOF" THEN "nil" ELSE err

\* A guard that lets a closed source through.
closedIgnored(c) == FALSE

\* The guard `if s.closed` at the top of Read and of WriteTo.
readClosed(c) == c
writeToClosed(c) == c

\* A Read that generates a boundary anew before it delivers anything.
ReadRenewingBoundary(k) ==
    /\ boundary' = populateRandomBoundary(CHOOSE seed \in RandSeeds : seed \notin InitSeeds)
    /\ res' = Result("Read", 0, "nil", k, "", 0, <<>>)
    /\ started' = TRUE
    /\ UNCHANGED <<parts, pullSet, pullSeq, pullPos, pullDone, buffered,
                   firstHeadingWritten, lastPart, finalizing, closed, cpos,
                   emit, contentOut, resets>>

\* Source.Read(p) with len(p) = k.
Read(k) ==
    IF readClosed(closed)
    THEN /\ res' = Result("Read", 0, "closed", k, "", 0, <<>>)
         /\ UNCHANGED <<srcVars, emit, started, contentOut, resets>>
    ELSE
    LET \* s.pull, s.stop = iter.Pull2(s.parts) when s.pull == nil
        seq == IF pullSet THEN pullSeq ELSE parts
        pos == IF pullSet THEN pullPos ELSE 0
        done == IF pullSet THEN pullDone ELSE FALSE
        needPull == pullNeeded(lastPart, finalizing)
        ok == ~done /\ pos < Len(seq)
        item == seq[pos + 1]
    IN  /\ pullSet' = TRUE
        /\ pullSeq' = seq
        /\ started' = TRUE
        /\ UNCHANGED <<boundary, parts, closed, resets>>
        /\ IF needPull /\ ~ok
           THEN \* finalize: return s.populateEnding().Read(p)
                LET r == BufferRead(populateEnding(boundary), k)
                IN  /\ finalizing' = TRUE
                    /\ pullDone' = TRUE
                    /\ pullPos' = pos
                    /\ buffered' = r.rest
                    /\ emit' = Emit(emit, "tail", 0, Take(populateEnding(boundary), r.n))
                    /\ res' = Result("Read", r.n, r.err, k, "", 0, <<>>)
                    /\ UNCHANGED <<firstHeadingWritten, lastPart, cpos, contentOut>>
           ELSE IF needPull /\ item.isErr
           THEN \* the sequence yielded an error
                /\ pullPos' = pos + 1
                /\ pullDone' = done
                /\ res' = Result("Read", 0, seqError(item), k, "", 1, <<>>)
                /\ UNCHANGED <<buffered, firstHeadingWritten, lastPart, finalizing,
                               cpos, emit, contentOut>>
           ELSE
           \E cur \in {IF needPull THEN pos + 1 ELSE lastPart} :
           \E buf0 \in {IF needPull
                        THEN populatePartHeading(firstHeadingWritten, boundary, item.header)
                        ELSE buffered} :
           \* drain s.buffered first
           \E br \in {IF Len(buf0) > 0 THEN BufferRead(buf0, k)
                      ELSE [n |-> 0, err |-> "nil", rest |-> buf0]} :
           \E e1 \in {Emit(emit, IF finalizing THEN "tail" ELSE "head",
                           IF finalizing THEN 0 ELSE cur, Take(buf0, br.n))} :
               /\ pullPos' = IF needPull THEN pos + 1 ELSE pos
               /\ pullDone' = done
               /\ firstHeadingWritten' = (firstHeadingWritten \/ needPull)
               /\ buffered' = br.rest
               /\ UNCHANGED finalizing
               /\ IF finalizing
                  THEN /\ res' = Result("Read", br.n, IF br.n > 0 THEN "nil" ELSE "EOF",
                                        k, "", 0, <<>>)
                       /\ emit' = e1
                       /\ UNCHANGED <<lastPart, cpos, contentOut>>
                  ELSE \* then the content of the active part, into p[bufRead:]
                       \E cr \in {ContentRead(seq[cur], cpos[cur], k - br.n)} :
                       /\ cpos' = [cpos EXCEPT ![cur] = @ + cr.n]
                       /\ emit' = Emit(e1, "body", cur,
                                       SubSeq(seq[cur].content, cpos[cur] + 1,
                                              cpos[cur] + cr.n))
                       /\ contentOut' = (contentOut \/ cr.n > 0)
                       /\ lastPart' = IF cr.err = "EOF" THEN 0 ELSE cur
                       /\ res' = Result("Read", br.n + cr.n,
                                        readError(cr.err),
                                        k, "", IF needPull THEN 1 ELSE 0, <<>>)

\* ---------------------------------------------------------------- boundary

\* The runes `for i, b := range boundary` visits, as <<byte index, rune>>.
RECURSIVE Runes(_, _)
Runes(b, i) ==
    IF b = "" THEN <<>>
    ELSE <<(<<i, Ord(Head(b))>>)>> \o Runes(Tail(b), i + Width(Head(b)))

\* The cases of the switch in SetBoundary's loop body.
AlnumRunes ==
    (Ord("A")..Ord("Z")) \cup (Ord("a")..Ord("z")) \cup (Ord("0")..Ord("9"))
PunctRunes ==
    {Ord("'"), Ord("("), Ord(")"), Ord("+"), Ord("_"), Ord(","), Ord("-"),
     Ord("."), Ord("/"), Ord(":"), Ord("="), Ord("?")}
SpaceRune == Ord(" ")

\* A switch that lets a space through in every position.
SpaceAnywhere(i, r, end) ==
    \/ r \in AlnumRunes
    \/ r \in PunctRunes
    \/ r = SpaceRune

\* The switch of SetBoundary's loop body: TRUE where it continues.
BoundaryRuneOK(i, r, end) ==
    \/ r \in AlnumRunes
    \/ r \in PunctRunes
    \/ (r = SpaceRune /\ i # end)

\* The error SetBoundary(b) returns, "nil" when it assigns s.boundary.
SetBoundaryErr(lp, b) ==
    IF lp # 0 THEN "afterread"
    ELSE IF ByteLen(b) < 1 \/ ByteLen(b) > MaxBoundaryLen THEN "badlen"
    ELSE LET rs == Runes(b, 0)
             end == ByteLen(b) - 1
         IN  IF \A j \in 1..Len(rs) : BoundaryRuneOK(rs[j][1], rs[j][2], end)
             THEN "nil" ELSE "badchar"

\* Source.SetBoundary(b).
SetBoundary(b) ==
    LET err == SetBoundaryErr(lastPart, b)
    IN  /\ boundary' = IF err = "nil" THEN b ELSE boundary
        /\ res' = Result("SetBoundary", 0, err, 0, b, 0, <<>>)
        /\ UNCHANGED <<parts, pullSet, pullSeq, pullPos, pullDone, buffered,
                       firstHeadingWritten, lastPart, finalizing, closed, cpos,
                       emit, started, contentOut, resets>>

\* Source.Boundary().
Boundary == boundary

\* -------------------------------------------------------------- Close, Reset

\* A Close that leaves the pull iterator running.
CloseWithoutStop ==
    /\ boundary' = ""
    /\ buffered' = ""
    /\ firstHeadingWritten' = FALSE
    /\ finalizing' = FALSE
    /\ lastPart' = 0
    /\ closed' = TRUE
    /\ res' = Result("Close", 0, "nil", 0, "", 0, <<>>)
    /\ UNCHANGED <<parts, pullSet, pullSeq, pullPos, pullDone, cpos, emit, started,
                   contentOut, resets>>

\* Source.Close().
Close ==
    /\ pullDone' = (pullDone \/ pullSet)
    /\ boundary' = ""
    /\ buffered' = ""
    /\ firstHeadingWritten' = FALSE
    /\ finalizing' = FALSE
    /\ lastPart' = 0
    /\ closed' = TRUE
    /\ res' = [Result("Close", 0, "nil", 0, "", 0, <<>>) EXCEPT !.stopped = pullSet]
    /\ UNCHANGED <<parts, pullSet, pullSeq, pullPos, cpos, emit, started,
                   contentOut, resets>>

\* Source.Reset(ps), the random source giving RandBytes(seed).
Reset(ps, seed) ==
    /\ pullDone' = (pullDone \/ pullSet)
    /\ boundary' = populateRandomBoundary(seed)
    /\ parts' = ps
    /\ buffered' = ""
    /\ firstHeadingWritten' = FALSE
    /\ finalizing' = FALSE
    /\ lastPart' = 0
    /\ closed' = FALSE
    /\ cpos' = [i \in 1..Len(ps) |-> 0]
    /\ emit' = <<>>
    /\ started' = FALSE
    /\ contentOut' = FALSE
    /\ resets' = resets + 1
    /\ res' = [Result("Reset", 0, "nil", 0, "", 0, <<>>) EXCEPT !.stopped = pullSet]
    /\ UNCHANGED <<pullSet, pullSeq, pullPos>>

\* ------------------------------------------------------------------ WriteTo

\* Sinks: "buffer" is a *bytes.Buffer (an io.ReaderFrom), "writer" a bare
\* io.Writer. A sink has room for a number of bytes: its Write takes what
\* fits, reports that count, and returns an error when not everything fitted.
SinkKinds == {"buffer", "writer"}
\* The room of a sink that never fails.
Unlimited == -1

\* target.Write(bytes) on a sink with the given room left.
SinkWrite(room, bytes) ==
    LET k == IF room = Unlimited THEN Len(bytes) ELSE Min(Len(bytes), room)
    IN  [taken |-> Take(bytes, k),
         err |-> IF k < Len(bytes) THEN "sinkerr" ELSE "nil",
         room |-> IF room = Unlimited THEN room ELSE room - k]

\* A content transfer that reports no byte count.
writePartContentUncounted(item, pos, sk, room) ==
    LET rest == SubSeq(item.content, pos + 1, Len(item.content))
        w == SinkWrite(room, rest)
    IN  [bytes |-> w.taken, n |-> 0, err |-> w.err, room |-> w.room]

\* Source.writePartContent(part, target): the content bytes that reach the
\* sink, the count and the error returned. A content with WriteTo writes
\* itself; otherwise a sink with ReadFrom reads it to its end; otherwise
\* io.CopyBuffer is handed s.buffered.Bytes() after Reset and Grow, a slice of
\* length 0, and panics.
writePartContent(item, pos, sk, room) ==
    LET rest == SubSeq(item.content, pos + 1, Len(item.content))
        w == SinkWrite(room, rest)
    IN  CASE item.ckind = "bytes" ->
                [bytes |-> w.taken, n |-> Len(w.taken), err |-> w.err, room |-> w.room]
          [] item.ckind # "bytes" /\ sk = "buffer" ->
                IF item.ckind = "failing"
                THEN [bytes |-> "", n |-> 0, err |-> item.err, room |-> room]
                ELSE [bytes |-> rest, n |-> Len(rest), err |-> "nil", room |-> room]
          [] OTHER -> [bytes |-> "", n |-> 0, err |-> "panic", room |-> room]

\* The loop of WriteTo from item i on, st the state so far: the bytes in the
\* sink, n, the room left in the sink, what is left in s.buffered.
RECURSIVE WriteFrom(_, _, _, _, _)
WriteFrom(list, b, sk, i, st) ==
    IF i > Len(list)
    THEN LET ew == SinkWrite(st.room, populateEnding(b))
         IN  [st EXCEPT !.sink = Emit(@, "tail", 0, ew.taken),
                        !.n = @ + Len(ew.taken),
                        !.room = ew.room,
                        !.left = Drop(populateEnding(b), Len(ew.taken)),
                        !.err = ew.err]
    ELSE IF list[i].isErr
    THEN [st EXCEPT !.err = seqError(list[i]), !.pulled = i]
    ELSE LET head == populatePartHeading(st.fhw, b, list[i].header)
             hw == SinkWrite(st.room, head)
             st1 == [st EXCEPT !.sink = Emit(@, "head", i, hw.taken),
                               !.n = @ + Len(hw.taken),
                               !.room = hw.room,
                               !.left = Drop(head, Len(hw.taken)),
                               !.fhw = TRUE,
                               !.pulled = i,
                               !.err = hw.err]
             wc == writePartContent(list[i], st.cpos[i], sk, st1.room)
             st2 == [st1 EXCEPT !.sink = Emit(@, "body", i, wc.bytes),
                                !.n = @ + wc.n,
                                !.room = wc.room,
                                !.cbytes = @ + Len(wc.bytes),
                                !.cpos[i] = @ + Len(wc.bytes),
                                !.err = wc.err]
         IN  IF hw.err # "nil" THEN st1
             ELSE IF wc.err # "nil" THEN st2
             ELSE WriteFrom(list, b, sk, i + 1, st2)

\* What WriteTo does to a source with the given fields, the sink having the
\* given room.
WriteToSink(list, b, sk, room, fhw, cp, buf) ==
    WriteFrom(list, b, sk, 1,
              [sink |-> <<>>, n |-> 0, room |-> room, left |-> buf, fhw |-> fhw,
               pulled |-> 0, cbytes |-> 0, cpos |-> cp, err |-> "nil"])

\* The same for a sink that never fails.
WriteToRun(list, b, sk, fhw, cp) == WriteToSink(list, b, sk, Unlimited, fhw, cp, "")

\* Source.WriteTo(target), target a sink of kind sk with the given room.
WriteTo(sk, room) ==
    IF writeToClosed(closed)
    THEN /\ res' = Result("WriteTo", 0, "closed", 0, "", 0, <<>>)
         /\ UNCHANGED <<srcVars, emit, started, contentOut, resets>>
    ELSE LET w == WriteToSink(parts, boundary, sk, room, firstHeadingWritten, cpos, buffered)
         IN  /\ res' = Result("WriteTo", w.n, w.err, 0, "", w.pulled, w.sink)
             /\ firstHeadingWritten' = w.fhw
             /\ cpos' = w.cpos
             /\ buffered' = w.left
             /\ started' = TRUE
             /\ contentOut' = (contentOut \/ w.cbytes > 0)
             /\ UNCHANGED <<boundary, parts, pullSet, pullSeq, pullPos, pullDone,
                            lastPart, finalizing, closed, emit, resets>>

\* ------------------------------------------------------------ specification

\* Arguments given to SetBoundary: an accepted one, and one rejected for its
\* length.
BoundaryArgs == {"b", ""}

\* Sequences given to Reset.
ResetLists == {<<PartFoo>>}

ReadCall == (\E k \in BufSizes : Read(k)) /\ UNCHANGED partVars
\* Bulk copy is explored on a source whose message Read has not begun to
\* deliver, and on a closed one.
WriteToCall ==
    /\ closed \/ emit = <<>>
    /\ \E sk \in SinkKinds : WriteTo(sk, Unlimited)
    /\ UNCHANGED partVars
SetBoundaryCall == (\E b \in BoundaryArgs : SetBoundary(b)) /\ UNCHANGED partVars
CloseCall == Close /\ UNCHANGED partVars
ResetCall ==
    /\ resets < MaxResets
    /\ \E ps \in ResetLists, seed \in RandSeeds : Reset(ps, seed)
    /\ UNCHANGED partVars

Next == ReadCall \/ WriteToCall \/ SetBoundaryCall \/ CloseCall \/ ResetCall

Spec == Init /\ [][Next]_vars

\* ------------------------------------------- one message, one way of reading

\* Largest fixed chunk size of a chunked reader, besides the one-shot size.
MaxChunk == 3

\* Error-free part sequences; two of the parts carry headers, one of them a
\* multi-valued key, one of them no content.
StreamItems == {PartFoo, PartSorted, PartEmpty, PartPlain, PartBare}
StreamLists == SeqsUpTo(StreamItems, MaxParts)
StreamBufSizes == (1..MaxChunk) \cup {OneShot}
StreamBoundaries == {"b"}

InitStream == NewSource(StreamLists) /\ NewPart

\* The caller may set an explicit boundary before it starts to consume.
StreamSetBoundary ==
    /\ ~started
    /\ \E b \in StreamBoundaries : SetBoundary(b)
    /\ UNCHANGED partVars
\* A chunked reader: every Read is given a buffer of the same positive length.
StreamRead ==
    \E k \in StreamBufSizes :
        /\ ~started \/ (res.op = "Read" /\ res.plen = k)
        /\ Read(k)
        /\ UNCHANGED partVars
\* A bulk copy of the whole message.
StreamWriteTo ==
    /\ ~started
    /\ \E sk \in SinkKinds : WriteTo(sk, Unlimited)
    /\ UNCHANGED partVars

NextStream == StreamSetBoundary \/ StreamRead \/ StreamWriteTo

SpecStream == InitStream /\ [][NextStream]_vars

\* --------------------------------------------------- boundary validation only

\* Characters the candidate boundaries are built from.
BoundaryAlphabet == {"a", "0", "-", " ", "!", UUml}
RECURSIVE StringsUpTo(_, _)
StringsUpTo(S, n) ==
    IF n = 0 THEN {""}
    ELSE LET shorter == StringsUpTo(S, n - 1)
         IN  shorter \cup {s \o x : s \in {t \in shorter : Len(t) = n - 1}, x \in S}
\* Candidates: every string of up to two of these characters, and long ones
\* around the length limit (with a space at either end, and with a two-byte
\* character).
BoundaryCandidates ==
    StringsUpTo(BoundaryAlphabet, 2)
        \cup {Repeat("x", MaxBoundaryLen - 1), Repeat("x", MaxBoundaryLen),
              Repeat("x", MaxBoundaryLen + 1),
              Repeat("x", MaxBoundaryLen - 1) \o " ",
              " " \o Repeat("x", MaxBoundaryLen - 1),
              Repeat("x", MaxBoundaryLen - 1) \o UUml}

InitBoundary == NewSource({<<>>, <<PartFoo>>}) /\ NewPart

SetBoundaryAny == (\E b \in BoundaryCandidates : SetBoundary(b)) /\ UNCHANGED partVars

NextBoundary == SetBoundaryAny

SpecBoundary == InitBoundary /\ [][NextBoundary]_vars

\* ------------------------------------------------------------------ properties

IsPrefix(a, b) == Len(a) <= Len(b) /\ SubSeq(b, 1, Len(a)) = a
EndsWith(s, t) == Len(t) <= Len(s) /\ SubSeq(s, Len(s) - Len(t) + 1, Len(s)) = t

\* The last Read reported io.EOF: a chunked reader has the whole message.
ReadComplete == res.op = "Read" /\ res.err = "EOF"
\* The last call was a WriteTo that returned a nil error.
WriteComplete == res.op = "WriteTo" /\ res.err = "nil"
\* The message as the consumer of the last call holds it.
Output == IF res.op = "WriteTo" THEN Flat(res.sink) ELSE Out

Fresh(list) == [i \in 1..Len(list) |-> 0]

\* The trailer for boundary b.
Trailer(b) == "\r\n--" \o b \o "--\r\n"

\* RFC 2046 framing of a part list under boundary b.
WirePart(list, b, i) ==
    (IF i = 1 THEN "--" ELSE "\r\n--") \o b
        \o HeaderLines(list[i].header) \o "\r\n\r\n" \o list[i].content
Wire(list, b) == Concat([i \in 1..Len(list) |-> WirePart(list, b, i)]) \o Trailer(b)

\* C1: chunk-size independence: the concatenation of what Read delivers with a
\* fixed positive buffer size, continued until io.EOF, equals what WriteTo
\* writes to a sink for the same parts and boundary.
ChunkSizeIndependence ==
    ReadComplete =>
        Out = Flat(WriteToRun(parts, boundary, "buffer", FALSE, Fresh(parts)).sink)

\* A one-byte reader has reached io.EOF on a single part without content, and
\* holds less than the bulk copy writes.
EmptyPartCutShort ==
    /\ ReadComplete
    /\ res.plen = 1
    /\ parts = <<PartEmpty>>
    /\ Len(Out) < Len(Flat(WriteToRun(parts, boundary, "buffer", FALSE, Fresh(parts)).sink))

\* C2: wire format: the complete output of a fresh Source is exactly the
\* headings ("--"+b first, "\r\n--"+b later), each with its header lines,
\* "\r\n\r\n" and the part's content, then the trailer "\r\n--"+b+"--\r\n".
WireFormat == (ReadComplete \/ WriteComplete) => Output = Wire(parts, boundary)

\* A chunked reader has reached io.EOF and holds something else than the
\* framing of its parts.
WireBroken == ReadComplete /\ Out # Wire(parts, boundary)

\* The pieces of s between its line breaks; acc is the piece being read.
RECURSIVE SplitCRLF(_, _)
SplitCRLF(s, acc) ==
    LET at == {i \in 1..(Len(s) - 1) : SubSeq(s, i, i + 1) = CRLF}
        i == CHOOSE x \in at : \A y \in at : x <= y
    IN  IF at = {} THEN <<acc \o s>>
        ELSE <<acc \o SubSeq(s, 1, i - 1)>> \o SplitCRLF(SubSeq(s, i + 2, Len(s)), "")

IsHeaderLine(l) == \E i \in 1..(Len(l) - 1) : SubSeq(l, i, i + 1) = ColonSpace
SepAt(l) ==
    CHOOSE i \in 1..(Len(l) - 1) :
        /\ SubSeq(l, i, i + 1) = ColonSpace
        /\ \A j \in 1..(i - 1) : SubSeq(l, j, j + 1) # ColonSpace
LineKey(l) == SubSeq(l, 1, SepAt(l) - 1)
LineVal(l) == SubSeq(l, SepAt(l) + 2, Len(l))

\* The header lines of a heading that were delivered whole (up to the line
\* break that ends them), in the order of delivery.
EmittedLines(seg) ==
    LET pieces == SplitCRLF(seg.bytes, "")
    IN  SelectSeq(SubSeq(pieces, 1, Len(pieces) - 1), IsHeaderLine)
\* The values delivered for key k, in the order of delivery.
ValuesOf(ls, k) ==
    LET sel == SelectSeq(ls, LAMBDA l : LineKey(l) = k)
    IN  [i \in 1..Len(sel) |-> LineVal(sel[i])]
HeadingComplete(seg) == EndsWith(seg.bytes, CRLF \o CRLF)

HeadingOrdered(seg, h) ==
    LET ls == EmittedLines(seg)
    IN  /\ \A i \in 1..Len(ls) : LineKey(ls[i]) \in DOMAIN h
        /\ \A i, j \in 1..Len(ls) : i < j => ~StrLess(LineKey(ls[j]), LineKey(ls[i]))
        /\ \A k \in DOMAIN h :
               /\ IsPrefix(ValuesOf(ls, k), h[k])
               /\ HeadingComplete(seg) => ValuesOf(ls, k) = h[k]

Headings(e) == {e[i] : i \in {j \in 1..Len(e) : e[j].kind = "head"}}

\* C3: header ordering: in every part heading, on the Read path and on the
\* WriteTo path, the header lines come with their keys in ascending
\* lexicographic order and, for each key, one line per value in the insertion
\* order of the values.
HeaderOrdering ==
    \A seg \in Headings(emit) \cup Headings(res.sink) :
        HeadingOrdered(seg, parts[seg.part].header)

\* A one-byte reader has been handed the whole heading of the part with keys A
\* and B, B with two values.
SortedHeadingDelivered ==
    /\ res.op = "Read"
    /\ res.plen = 1
    /\ \E seg \in Headings(emit) :
           /\ parts[seg.part] = PartSorted
           /\ HeadingComplete(seg)
           /\ Len(EmittedLines(seg)) = 3

\* The consumer of the last call holds a complete message.
Complete == ReadComplete \/ WriteComplete
StartsWithBreak(o) == o # "" /\ Head(o) \in {"\r", "\n"}
WellShaped(o, b) == ~StartsWithBreak(o) /\ EndsWith(o, Trailer(b))

\* C4 as stated: for a part sequence of any length the complete output never
\* starts with '\r' or '\n' and ends with "\r\n--<boundary>--\r\n".
OutputShape == Complete => WellShaped(Output, boundary)

\* C4: output shape: for every part sequence of at least one part, the complete
\* output never starts with '\r' or '\n' and ends with
\* "\r\n--<boundary>--\r\n".
OutputShapeWithParts == Complete /\ Len(parts) >= 1 => WellShaped(Output, boundary)

\* A chunked reader has reached io.EOF on a sequence of two parts.
TwoPartsRead == ReadComplete /\ Len(parts) >= 2 /\ res.plen = 1

\* C5: boundary immutability: once a content byte of any part has been
\* produced, by Read or by WriteTo, every SetBoundary call fails (and so leaves
\* the boundary as it was): between two parts, while finalizing, and after
\* end-of-stream.
BoundaryImmutable == res.op = "SetBoundary" /\ contentOut => res.err # "nil"

\* SetBoundary has succeeded between two parts of a message being read.
SetBoundaryBetweenParts ==
    /\ res.op = "SetBoundary"
    /\ res.err = "nil"
    /\ contentOut
    /\ ~closed
    /\ ~finalizing
    /\ pullSet
    /\ pullPos < Len(pullSeq)

\* The characters a boundary may hold in every position.
BoundaryChars ==
    LET cs == "ABCDEFGHIJKLMNOPQRSTUVWXYZabcdefghijklmnopqrstuvwxyz0123456789'()+_,-./:=?"
    IN  {At(cs, i) : i \in 1..Len(cs)}
\* rfc2046 boundaries: 1 to 70 bytes, each an ASCII letter or digit, one of
\* '()+_,-./:=? or a space that is not the last character.
Acceptable(b) ==
    /\ ByteLen(b) >= 1
    /\ ByteLen(b) <= 70
    /\ \A i \in 1..Len(b) :
           At(b, i) \in BoundaryChars \/ (At(b, i) = " " /\ i # Len(b))

\* C6: boundary acceptance: on a Source that has not started streaming,
\* SetBoundary(b) succeeds if and only if b has 1 to 70 bytes and each
\* character is an ASCII letter or digit, one of '()+_,-./:=? or a space that
\* is not the final character.
BoundaryAcceptance ==
    res.op = "SetBoundary" /\ ~started => (res.err = "nil" <=> Acceptable(res.arg))

\* A boundary of the greatest length, with a space in it, has been accepted.
LongSpacedBoundaryAccepted ==
    /\ res.op = "SetBoundary"
    /\ res.err = "nil"
    /\ ByteLen(res.arg) = 70
    /\ Head(res.arg) = " "
    /\ Boundary = res.arg

Compatible(a, b) == IsPrefix(a, b) \/ IsPrefix(b, a)
\* A delivered stretch of a delimiter is a stretch of a delimiter for b.
DelimiterUses(seg, b) ==
    CASE seg.kind = "tail" -> IsPrefix(seg.bytes, Trailer(b))
      [] seg.kind = "head" -> \/ Compatible(seg.bytes, "--" \o b)
                              \/ Compatible(seg.bytes, "\r\n--" \o b)
      [] OTHER -> TRUE

\* C7: SetBoundary state effect: a SetBoundary(b) that succeeds makes
\* Boundary() return b, and the delimiters produced afterwards, by Read or by
\* WriteTo, use the boundary then in force; a SetBoundary that fails changes no
\* field of the Source.
SetBoundaryEffect ==
    [][/\ res'.op = "SetBoundary" /\ res'.err = "nil" => boundary' = res'.arg
       /\ res'.op = "SetBoundary" /\ res'.err # "nil" => srcVars' = srcVars
       /\ res'.op = "Read" /\ res'.n > 0 => DelimiterUses(emit'[Len(emit')], boundary')
       /\ res'.op = "WriteTo" =>
              \A i \in 1..Len(res'.sink) : DelimiterUses(res'.sink[i], boundary')
      ]_vars

\* Read has delivered trailer bytes that are not of the trailer for the
\* boundary SetBoundary has put in force.
StaleTrailerDelivered ==
    /\ res.op = "Read"
    /\ res.n > 0
    /\ boundary = "b"
    /\ emit[Len(emit)].kind = "tail"
    /\ ~IsPrefix(emit[Len(emit)].bytes, Trailer(boundary))

\* C8: end-of-stream signalling: Read returns io.EOF only on a call that
\* delivers no byte, after earlier calls have delivered the whole trailer; a
\* call that delivers bytes does not return io.EOF, whatever len(p).
EOFAfterTrailer ==
    /\ res.op = "Read" /\ res.err = "EOF" =>
           /\ res.n = 0
           /\ buffered = ""
           /\ emit # <<>>
           /\ emit[Len(emit)].kind = "tail"
           /\ EndsWith(emit[Len(emit)].bytes, Dashes \o CRLF)
    /\ res.op = "Read" /\ res.n > 0 => res.err # "EOF"

\* Read has returned io.EOF to a caller with an empty buffer while trailer
\* bytes were still staged.
EarlyEOF == res.op = "Read" /\ res.err = "EOF" /\ res.plen = 0 /\ buffered # ""

\* C9: no zero-byte-with-no-error returns: a Read on a Source that is not
\* closed, with len(p) >= 1, delivers a byte or returns an error (io.EOF
\* included); it never returns (0, nil).
NoEmptyRead == res.op = "Read" /\ res.plen >= 1 => ~(res.n = 0 /\ res.err = "nil")

\* Read has returned (0, nil) to a caller with a large buffer, at the end of a
\* part's content.
EmptyReadAfterContent ==
    /\ res.op = "Read"
    /\ res.plen = OneShot
    /\ res.n = 0
    /\ res.err = "nil"
    /\ contentOut
    /\ lastPart = 0

\* C10: closed source: after Close, every Read and every WriteTo returns an
\* error and zero bytes, delivers nothing to the caller buffer or the sink, and
\* takes nothing from the part sequence.
ClosedRefuses ==
    [][closed /\ res'.op \in {"Read", "WriteTo"} =>
           /\ res'.err = "closed"
           /\ res'.n = 0
           /\ res'.pulled = 0
           /\ res'.sink = <<>>
           /\ emit' = emit
           /\ pullPos' = pullPos
           /\ pullDone' = pullDone
           /\ cpos' = cpos
           /\ closed'
      ]_vars

\* A Source closed in the middle of its message has refused a Read.
ClosedReadRefused ==
    /\ closed
    /\ res.op = "Read"
    /\ res.err = "closed"
    /\ emit # <<>>
    /\ pullPos < Len(pullSeq)

\* ------------------------------------------------- a consumer that only reads

\* Buffer lengths of a consumer that reads with non-empty buffers.
ReaderBufSizes == {SmallBuf, OneShot}
ReaderRead == (\E k \in ReaderBufSizes : Read(k)) /\ UNCHANGED partVars

\* The message is consumed by Read alone; the source may be closed and reset
\* at any point.
NextReader == ReaderRead \/ CloseCall \/ ResetCall

SpecReader == Init /\ [][NextReader]_vars

\* C11: Reset re-arms the Source: after Reset(parts2), in whatever state the
\* Source was, reading with Read until io.EOF yields the complete encoding of
\* parts2 and nothing else.
ResetRearms == ReadComplete /\ resets >= 1 => Out = Wire(parts, boundary)

\* After a Reset, Read has reached io.EOF having delivered the trailer alone,
\* and no part of the new sequence.
OnlyTrailerAfterReset ==
    /\ ReadComplete
    /\ resets >= 1
    /\ parts = <<PartFoo>>
    /\ Out = Trailer(boundary)

\* C12: cancellation: a Close or Reset called after Read has begun pulling
\* from the part sequence invokes the stop hook of the pull iterator, and no
\* further item is ever pulled from that sequence.
Cancellation ==
    [][/\ res'.op \in {"Close", "Reset"} /\ pullSet => res'.stopped /\ pullDone'
       /\ pullSet /\ pullDone =>
              /\ pullSet' /\ pullDone'
              /\ pullSeq' = pullSeq
              /\ pullPos' = pullPos
              /\ res'.op = "Read" => res'.pulled = 0
      ]_vars

\* A Source reset in the middle of its sequence has answered a later Read
\* without taking another item of that sequence.
ReadAfterCancel ==
    /\ res.op = "Read"
    /\ resets >= 1
    /\ ~closed
    /\ pullDone
    /\ pullPos >= 1
    /\ pullPos < Len(pullSeq)

\* ------------------------------------------------------------------- errors

\* Part sequences that yield errors, and parts whose content fails.
ErrorItems == {PartFoo, PartFailing, ErrItem, ErrOther}
ErrorLists == SeqsUpTo(ErrorItems, MaxParts)

InitErrors == NewSource(ErrorLists) /\ NewPart

\* Read with non-empty buffers, or bulk copies to sinks of which some fail;
\* calls go on after an error.
ErrorsRead == (\E k \in ReaderBufSizes : Read(k)) /\ UNCHANGED partVars
\* Length of the first heading of a part without header, under a generated
\* boundary.
HeadingLen == Len(Dashes) + 2 * RandLen + 2 * Len(CRLF)
\* Rooms of the failing writers: none, part of a heading, the first heading
\* and 0, 1 or 2 bytes more, and part of what follows.
SinkRooms ==
    {0, SmallBuf, HeadingLen, HeadingLen + 1, HeadingLen + 2, HeadingLen + 2 + SmallBuf}
\* Bulk copies are explored on a source whose message Read has not begun to
\* deliver; those to a failing writer as the first call.
ErrorsWriteTo ==
    /\ \/ emit = <<>> /\ \E sk \in SinkKinds : WriteTo(sk, Unlimited)
       \/ ~started /\ \E room \in SinkRooms : WriteTo("writer", room)
    /\ UNCHANGED partVars

NextErrors == ErrorsRead \/ ErrorsWriteTo

SpecErrors == InitErrors /\ [][NextErrors]_vars

\* C13: sequence error on Read: a Read in which the part sequence yields an
\* error returns that very error and zero bytes, delivers nothing to the
\* caller, sets no active part, and leaves what earlier calls delivered.
SequenceErrorOnRead ==
    [][res'.op = "Read" /\ res'.pulled = 1 /\ pullSeq'[pullPos'].isErr =>
           /\ res'.err = pullSeq'[pullPos'].err
           /\ res'.n = 0
           /\ emit' = emit
           /\ lastPart' = 0
           /\ buffered' = buffered
           /\ cpos' = cpos
      ]_vars

\* After a whole part was delivered, Read has returned the second error of
\* the model, yielded by the sequence.
SecondErrorReturned ==
    /\ res.op = "Read"
    /\ res.pulled = 1
    /\ pullPos = 2
    /\ pullSeq[pullPos] = ErrOther
    /\ res.err = ErrOther.err
    /\ emit # <<>>

Segments(e) == {e[i] : i \in 1..Len(e)}

\* C14: bulk-copy error: a WriteTo that meets an error (yielded by the
\* sequence, returned by the sink, or returned while content is transferred)
\* returns that error and the exact number of bytes that reached the sink; no
\* item before it was an error or failed, no later part is touched, and no
\* trailer is written unless it is the trailer the sink failed on.
BulkCopyError ==
    [][res'.op = "WriteTo" /\ res'.err \notin {"nil", "closed", "panic"} =>
           LET j == res'.pulled
               segs == Segments(res'.sink)
               tails == {seg \in segs : seg.kind = "tail"}
               atItem == j >= 1 /\ tails = {}
           IN  /\ res'.n = Len(Flat(res'.sink))
               /\ \A i \in 1..(j - 1) : ~parts[i].isErr /\ parts[i].ckind # "failing"
               /\ atItem /\ parts[j].isErr => res'.err = parts[j].err /\ cpos'[j] = cpos[j]
               /\ atItem /\ ~parts[j].isErr /\ res'.err # "sinkerr" =>
                      /\ parts[j].ckind = "failing"
                      /\ res'.err = parts[j].err
               /\ \A seg \in segs : seg.part <= j
               /\ \A i \in (j + 1)..Len(parts) : cpos'[i] = cpos[i]
               /\ tails # {} =>
                      /\ j = Len(parts)
                      /\ res'.err = "sinkerr"
                      /\ \A seg \in tails :
                             /\ IsPrefix(seg.bytes, Trailer(boundary))
                             /\ seg.bytes # Trailer(boundary)
      ]_vars

\* A WriteTo has stopped at the error the sequence yields after a part, with
\* that part's heading and content in the sink and counted.
StoppedAtSequenceError ==
    /\ res.op = "WriteTo"
    /\ res.err = ErrOther.err
    /\ res.pulled = 2
    /\ res.n = HeadingLen + Len(PartFoo.content)
    /\ Len(res.sink) = 2

\* ---------------------------------------------------------------- decoding

\* The pieces of s between the occurrences of sep; acc is the piece being read.
RECURSIVE SplitOn(_, _, _)
SplitOn(s, sep, acc) ==
    LET at == {i \in 1..(Len(s) - Len(sep) + 1) : SubSeq(s, i, i + Len(sep) - 1) = sep}
        i == CHOOSE x \in at : \A y \in at : x <= y
    IN  IF at = {} THEN <<acc \o s>>
        ELSE <<acc \o SubSeq(s, 1, i - 1)>> \o SplitOn(SubSeq(s, i + Len(sep), Len(s)), sep, "")

\* A part as a multipart parser hands it out: the header as a map from key to
\* values, and the content; ok is FALSE for a piece that is no part.
DecodePart(piece) ==
    LET halves == SplitOn(piece, CRLF \o CRLF, "")
        lines == Tail(SplitCRLF(halves[1], ""))
        keys == {LineKey(lines[i]) : i \in 1..Len(lines)}
    IN  IF Len(halves) < 2 \/ ~IsPrefix(CRLF, piece) \/ \E i \in 1..Len(lines) : ~IsHeaderLine(lines[i])
        THEN [ok |-> FALSE, header |-> NoHeader, content |-> ""]
        ELSE [ok |-> TRUE,
              header |-> [k \in keys |-> ValuesOf(lines, k)],
              content |-> Drop(piece, Len(halves[1]) + 2 * Len(CRLF))]

\* RFC 2046 decoding of message o under boundary b: what precedes the first
\* delimiter line is skipped, each "\r\n--b" ends a part, "--\r\n" after the
\* last one closes the message.
Decode(o, b) ==
    LET pieces == SplitOn(CRLF \o o, CRLF \o Dashes \o b, "")
        n == Len(pieces)
        decoded == [i \in 1..(n - 2) |-> DecodePart(pieces[i + 1])]
    IN  IF n < 2 \/ pieces[n] # Dashes \o CRLF \/ \E i \in 1..(n - 2) : ~decoded[i].ok
        THEN [ok |-> FALSE, parts |-> <<>>]
        ELSE [ok |-> TRUE,
              parts |-> [i \in 1..(n - 2) |->
                            [header |-> decoded[i].header, content |-> decoded[i].content]]]

\* C15: round trip: decoding the complete output of the Source, from Read or
\* from WriteTo, under Boundary() gives the header values and the content of
\* every part, in order, and then the end of the parts.
RoundTrip ==
    Complete =>
        Decode(Output, Boundary) =
            [ok |-> TRUE,
             parts |-> [i \in 1..Len(parts) |->
                           [header |-> parts[i].header, content |-> parts[i].content]]]

\* A chunked reader has a complete message of a part with headers that does
\* not decode.
MessageUndecodable ==
    /\ ReadComplete
    /\ parts = <<PartBare>>
    /\ ~Decode(Out, Boundary).ok

EndBufSizes == {0} \cup StreamBufSizes
PersistentRead ==
    /\ \/ \E k \in StreamBufSizes :
              /\ ~started \/ (res.op = "Read" /\ res.plen = k)
              /\ Read(k)
       \/ ReadComplete /\ \E k \in EndBufSizes : Read(k)
    /\ UNCHANGED partVars

NextPersistent == StreamSetBoundary \/ PersistentRead

\* The reader never stops calling Read while a call can change anything.
SpecPersistent == InitStream /\ [][NextPersistent]_vars /\ WF_vars(PersistentRead)

\* C17: termination: on a finite sequence of parts with finite content that
\* yields no error, a reader that goes on calling Read with len(p) >= 1
\* eventually gets io.EOF, and from then on every Read returns (0, io.EOF),
\* takes nothing from the sequence and delivers nothing.
Termination ==
    /\ <>ReadComplete
    /\ [][ReadComplete /\ res'.op = "Read" =>
              /\ res'.n = 0
              /\ res'.err = "EOF"
              /\ res'.pulled = 0
              /\ emit' = emit
              /\ pullPos' = pullPos
              /\ cpos' = cpos
         ]_vars

\* After io.EOF, a Read with an empty buffer has returned io.EOF again.
EOFAgain == ReadComplete /\ res.plen = 0 /\ Len(parts) >= 1


\* ------------------------------------------------------------------- Part

contentDispositionHeader == "Content-Disposition"
contentTypeHeader == "Content-Type"
formDataDisposition == "form-data"

DQ == "\""
UpperCase == "ABCDEFGHIJKLMNOPQRSTUVWXYZ"
LowerCase == "abcdefghijklmnopqrstuvwxyz"

Contains(s, c) == \E i \in 1..Len(s) : At(s, i) = c

\* strings.ToLower, on ASCII.
ToLowerChar(c) ==
    IF Contains(UpperCase, c)
    THEN At(LowerCase, CHOOSE i \in 1..Len(UpperCase) : At(UpperCase, i) = c)
    ELSE c
RECURSIVE ToLower(_)
ToLower(s) == IF s = "" THEN "" ELSE ToLowerChar(Head(s)) \o ToLower(Tail(s))

\* unicode.IsSpace, on the characters of the model.
IsSpace(c) == Contains(" \t\r\n", c)
RECURSIVE TrimLeft(_)
TrimLeft(s) == IF s # "" /\ IsSpace(Head(s)) THEN TrimLeft(Tail(s)) ELSE s
RECURSIVE TrimRight(_)
TrimRight(s) ==
    IF s # "" /\ IsSpace(At(s, Len(s))) THEN TrimRight(SubSeq(s, 1, Len(s) - 1)) ELSE s
TrimSpace(s) == TrimRight(TrimLeft(s))

\* mime: isTSpecial and isTokenChar; every character of the model other than
\* white space is printable ASCII.
TSpecials == "()<>@,;:\\/[]?=" \o DQ
IsTokenChar(c) == ~IsSpace(c) /\ ~Contains(TSpecials, c)
\* mime: isToken.
IsToken(s) == s # "" /\ \A i \in 1..Len(s) : IsTokenChar(At(s, i))

\* mime: consumeToken: the longest leading run of token characters.
RECURSIVE TokenLen(_)
TokenLen(v) == IF v # "" /\ IsTokenChar(Head(v)) THEN 1 + TokenLen(Tail(v)) ELSE 0
consumeToken(v) == [token |-> Take(v, TokenLen(v)), rest |-> Drop(v, TokenLen(v))]

\* mime: consumeValue: a token, or a quoted string with its escapes removed;
\* scan ok is FALSE when the closing quote is missing.
RECURSIVE QuotedScan(_, _)
QuotedScan(v, acc) ==
    IF v = "" THEN [ok |-> FALSE, value |-> "", rest |-> ""]
    ELSE IF Head(v) = DQ THEN [ok |-> TRUE, value |-> acc, rest |-> Tail(v)]
    ELSE IF Head(v) = "\\" /\ Len(v) >= 2 /\ Contains(TSpecials, At(v, 2))
         THEN QuotedScan(Drop(v, 2), acc \o At(v, 2))
    ELSE IF Head(v) \in {"\r", "\n"} THEN [ok |-> FALSE, value |-> "", rest |-> ""]
    ELSE QuotedScan(Tail(v), acc \o Head(v))
consumeValue(v) ==
    IF v = "" THEN [value |-> "", rest |-> ""]
    ELSE IF Head(v) # DQ
         THEN [value |-> consumeToken(v).token, rest |-> consumeToken(v).rest]
    ELSE LET q == QuotedScan(Tail(v), "")
         IN  IF q.ok THEN [value |-> q.value, rest |-> q.rest]
             ELSE [value |-> "", rest |-> v]

\* mime: consumeMediaParam: "; key = value" at the head of v; param is "" when
\* there is none.
consumeMediaParam(v) ==
    LET none == [param |-> "", value |-> "", rest |-> v]
        r0 == TrimLeft(v)
        r1 == TrimLeft(Tail(r0))
        tok == consumeToken(r1)
        r2 == TrimLeft(tok.rest)
        r3 == TrimLeft(Tail(r2))
        val == consumeValue(r3)
    IN  IF r0 = "" \/ Head(r0) # ";" THEN none
        ELSE IF tok.token = "" THEN none
        ELSE IF r2 = "" \/ Head(r2) # "=" THEN none
        ELSE IF val.value = "" /\ val.rest = r3 THEN none
        ELSE [param |-> ToLower(tok.token), value |-> val.value, rest |-> val.rest]

\* mime: checkMediaTypeDisposition: a token, or token "/" token.
checkMediaTypeDisposition(s) ==
    LET typ == consumeToken(s)
        sub == consumeToken(Tail(typ.rest))
    IN  /\ typ.token # ""
        /\ \/ typ.rest = ""
           \/ Head(typ.rest) = "/" /\ sub.token # "" /\ sub.rest = ""

MapGet(m, k) == IF k \in DOMAIN m THEN m[k] ELSE ""
MapSet(m, k, x) == [a \in DOMAIN m \cup {k} |-> IF a = k THEN x ELSE m[a]]

\* The parameter loop of mime.ParseMediaType over the rest v of the value.
RECURSIVE ParseParams(_, _, _)
ParseParams(mediatype, v, params) ==
    LET w == TrimLeft(v)
        p == consumeMediaParam(w)
    IN  IF w = "" THEN [mediatype |-> mediatype, params |-> params, err |-> FALSE]
        ELSE IF p.param = ""
             THEN IF TrimSpace(p.rest) = ";"
                  THEN [mediatype |-> mediatype, params |-> params, err |-> FALSE]
                  ELSE [mediatype |-> mediatype, params |-> NoParams, err |-> TRUE]
        ELSE IF p.param \in DOMAIN params /\ params[p.param] # p.value
             THEN [mediatype |-> "", params |-> NoParams, err |-> TRUE]
        ELSE ParseParams(mediatype, p.rest, MapSet(params, p.param, p.value))

\* Position of the first c in s, Len(s) + 1 when there is none.
RECURSIVE IndexOf(_, _)
IndexOf(s, c) == IF s = "" \/ Head(s) = c THEN 1 ELSE 1 + IndexOf(Tail(s), c)

\* mime.ParseMediaType(v): the media type in lower case and its parameters
\* (keys in lower case); with err the returned map is nil. Values carry no
\* RFC 2231 continuations.
ParseMediaType(v) ==
    LET base == Take(v, IndexOf(v, ";") - 1)
        mediatype == TrimSpace(ToLower(base))
    IN  IF ~checkMediaTypeDisposition(mediatype)
        THEN [mediatype |-> "", params |-> NoParams, err |-> TRUE]
        ELSE ParseParams(mediatype, Drop(v, Len(base)), NoParams)

\* The keys of a map in the order of slices.Sort.
RECURSIVE SortedAttrs(_)
SortedAttrs(S) ==
    IF S = {} THEN <<>>
    ELSE LET a == CHOOSE x \in S : \A y \in S : ~StrLess(y, x)
         IN  <<a>> \o SortedAttrs(S \ {a})

\* A quoted string: backslash before every quote and backslash.
RECURSIVE Escaped(_)
Escaped(value) ==
    IF value = "" THEN ""
    ELSE (IF Head(value) \in {DQ, "\\"} THEN "\\" ELSE "") \o Head(value) \o Escaped(Tail(value))

FormatParam(attribute, value) ==
    "; " \o ToLower(attribute) \o "=" \o
        (IF IsToken(value) THEN value ELSE DQ \o Escaped(value) \o DQ)

\* mime.FormatMediaType(t, param) for a type without slash and printable ASCII
\* values: "" when the type or a key is no token.
FormatMediaType(t, param) ==
    LET attrs == SortedAttrs(DOMAIN param)
    IN  IF ~IsToken(t) \/ \E a \in DOMAIN param : ~IsToken(a) THEN ""
        ELSE ToLower(t) \o Concat([i \in 1..Len(attrs) |-> FormatParam(attrs[i], param[attrs[i]])])

\* filepath.Base on a slash-separated path.
RECURSIVE StripSlashes(_)
StripSlashes(path) ==
    IF Len(path) > 0 /\ At(path, Len(path)) = "/"
    THEN StripSlashes(SubSeq(path, 1, Len(path) - 1)) ELSE path
RECURSIVE LastElement(_)
LastElement(path) ==
    IF Contains(path, "/") THEN LastElement(Drop(path, IndexOf(path, "/"))) ELSE path
Base(path) ==
    IF path = "" THEN "."
    ELSE IF StripSlashes(path) = "" THEN "/"
    ELSE LastElement(StripSlashes(path))


\* The entries of the map a dispositionParams reference leads to; reading a
\* nil map finds no entry.
Params(dp, ep) ==
    CASE dp.ref = "map" -> dp.m
      [] dp.ref = "emptyParams" -> ep
      [] OTHER -> NoParams

\* p.parseContentDisposition(): the disposition and dispositionParams it
\* leaves, from header h and the fields d and dp.
parseContentDisposition(h, d, dp) ==
    IF contentDispositionHeader \notin DOMAIN h \/ h[contentDispositionHeader] = <<>>
    THEN [disposition |-> "", dispositionParams |-> SharedParams]
    ELSE IF dp.ref # "nil" /\ d = h[contentDispositionHeader][1]
         THEN [disposition |-> d, dispositionParams |-> dp]
    ELSE LET r == ParseMediaType(h[contentDispositionHeader][1])
         IN  [disposition |-> r.mediatype,
              dispositionParams |-> IF r.err THEN SharedParams ELSE OwnParams(r.params)]

\* What p.FormName() returns.
FormNameResult(h, d, dp, ep) ==
    LET c == parseContentDisposition(h, d, dp)
    IN  IF c.disposition # formDataDisposition THEN ""
        ELSE MapGet(Params(c.dispositionParams, ep), "name")

\* What p.FileName() returns.
FileNameResult(h, d, dp, ep) ==
    LET c == parseContentDisposition(h, d, dp)
        filename == MapGet(Params(c.dispositionParams, ep), "filename")
    IN  IF filename = "" THEN "" ELSE Base(filename)

\* p.SetFormName(formName)
SetFormName(formName) ==
    LET m == MapSet(Params(dispositionParams, emptyParams), "name", formName)
        d == FormatMediaType(formDataDisposition, m)
    IN  /\ dispositionParams' = IF dispositionParams.ref = "emptyParams"
                                THEN dispositionParams ELSE OwnParams(m)
        /\ emptyParams' = IF dispositionParams.ref = "emptyParams" THEN m ELSE emptyParams
        /\ disposition' = d
        /\ Header' = MapSet(Header, contentDispositionHeader, <<d>>)
        /\ call' = PartCall("SetFormName", formName, "", FALSE)
        /\ UNCHANGED <<otherVars, contentVars>>

\* The Content-Type header as SetFileName leaves it.
fileContentType(h) == MapSet(h, contentTypeHeader, <<"application/octet-stream">>)

\* p.SetFileName(fileName): the write into a nil map panics.
SetFileName(fileName) ==
    IF dispositionParams.ref = "nil"
    THEN /\ call' = PartCall("SetFileName", fileName, "", TRUE)
         /\ UNCHANGED <<Header, disposition, dispositionParams, emptyParams, otherVars, contentVars>>
    ELSE
    LET m == MapSet(Params(dispositionParams, emptyParams), "filename", fileName)
        d == FormatMediaType(formDataDisposition, m)
    IN  /\ dispositionParams' = IF dispositionParams.ref = "emptyParams"
                                THEN dispositionParams ELSE OwnParams(m)
        /\ emptyParams' = IF dispositionParams.ref = "emptyParams" THEN m ELSE emptyParams
        /\ disposition' = d
        /\ Header' = fileContentType(MapSet(Header, contentDispositionHeader, <<d>>))
        /\ call' = PartCall("SetFileName", fileName, "", FALSE)
        /\ UNCHANGED <<otherVars, contentVars>>

\* p.FormName()
FormName ==
    LET c == parseContentDisposition(Header, disposition, dispositionParams)
    IN  /\ disposition' = c.disposition
        /\ dispositionParams' = c.dispositionParams
        /\ call' = PartCall("FormName", "",
                            FormNameResult(Header, disposition, dispositionParams, emptyParams),
                            FALSE)
        /\ UNCHANGED <<Header, emptyParams, otherVars, contentVars>>

\* p.FileName()
FileName ==
    LET c == parseContentDisposition(Header, disposition, dispositionParams)
    IN  /\ disposition' = c.disposition
        /\ dispositionParams' = c.dispositionParams
        /\ call' = PartCall("FileName", "",
                            FileNameResult(Header, disposition, dispositionParams, emptyParams),
                            FALSE)
        /\ UNCHANGED <<Header, emptyParams, otherVars, contentVars>>

\* p.SetContentType(contentType)
SetContentType(contentType) ==
    /\ Header' = MapSet(Header, contentTypeHeader, <<contentType>>)
    /\ call' = PartCall("SetContentType", contentType, "", FALSE)
    /\ UNCHANGED <<disposition, dispositionParams, emptyParams, otherVars, contentVars>>

\* p.Header.Set("Content-Disposition", v), by the owner of the part.
HeaderSet(v) ==
    /\ Header' = MapSet(Header, contentDispositionHeader, <<v>>)
    /\ call' = PartCall("Header.Set", v, "", FALSE)
    /\ UNCHANGED <<disposition, dispositionParams, emptyParams, otherVars, contentVars>>

\* p.Header.Del("Content-Disposition")
HeaderDel ==
    /\ contentDispositionHeader \in DOMAIN Header
    /\ Header' = [k \in DOMAIN Header \ {contentDispositionHeader} |-> Header[k]]
    /\ call' = PartCall("Header.Del", "", "", FALSE)
    /\ UNCHANGED <<disposition, dispositionParams, emptyParams, otherVars, contentVars>>

\* p.Reset()
PartReset ==
    /\ Header' = NoHeader
    /\ disposition' = ""
    /\ dispositionParams' = NilParams
    /\ Content' = NilContent
    /\ got' = ""
    /\ call' = PartCall("Reset", "", "", FALSE)
    /\ UNCHANGED <<emptyParams, otherVars>>

\* Arguments of the setters, and values written to the header directly.
FormNames == {"x"}
FileNames == {"d/f.txt"}
ContentTypes == {"text/plain"}
DispositionValues ==
    {"form-data; name=" \o DQ \o "foo" \o DQ,
     " FORM-DATA ; name=foo",
     "form-data",
     "attachment; filename=" \o DQ \o "d/g.txt" \o DQ,
     "form-data; name"}

InitPart == NewSource({<<>>}) /\ NewPart

SetFormNameCall == \E x \in FormNames : SetFormName(x)
SetFileNameCall == \E f \in FileNames : SetFileName(f)
SetContentTypeCall == \E ct \in ContentTypes : SetContentType(ct)
HeaderSetCall == \E v \in DispositionValues : HeaderSet(v)

NextPart ==
    \/ SetFormNameCall
    \/ SetFileNameCall
    \/ FormName
    \/ FileName
    \/ SetContentTypeCall
    \/ HeaderSetCall
    \/ HeaderDel
    \/ PartReset

SpecPart == InitPart /\ [][NextPart]_partVars


\* The type of the part's Content-Disposition header, "" without the header.
DispositionType ==
    IF contentDispositionHeader \in DOMAIN Header
    THEN ParseMediaType(Header[contentDispositionHeader][1]).mediatype
    ELSE ""
\* What FormName() and FileName() return when called in the current state.
FormNameNow == FormNameResult(Header, disposition, dispositionParams, emptyParams)
FileNameNow == FileNameResult(Header, disposition, dispositionParams, emptyParams)

\* C18: form-name round trip: after SetFormName(x) the part has a
\* Content-Disposition of type form-data and FormName() returns x; after a
\* SetFileName(f) that follows it the same holds and FileName() returns the
\* base name of f.
FormNameRoundTrip ==
    /\ call.op = "SetFormName" =>
           /\ DispositionType = formDataDisposition
           /\ FormNameNow = call.arg
    /\ call.op = "SetFileName" /\ call.after # "" =>
           /\ DispositionType = formDataDisposition
           /\ FormNameNow = call.after
           /\ FileNameNow = Base(call.arg)

\* SetFormName has returned, and FormName() does not return its argument.
FormNameLost ==
    /\ call.op = "SetFormName"
    /\ DispositionType = formDataDisposition
    /\ FormNameNow # call.arg


\* C19: SetFileName defaults Content-Type to application/octet-stream only
\* when the part carries no Content-Type: a Content-Type set before the call
\* is still the header's value after it.
FileNameContentType ==
    call.op = "SetFileName" /\ ~call.fault =>
        Header[contentTypeHeader] =
            IF call.ctype # <<>> THEN call.ctype ELSE <<"application/octet-stream">>

\* SetFileName has replaced a Content-Type that SetContentType had set.
ContentTypeReplaced ==
    /\ call.op = "SetFileName"
    /\ ~call.fault
    /\ call.ctype = <<"text/plain">>
    /\ Header[contentTypeHeader] = <<"application/octet-stream">>


\* What parsing the current value of the Content-Disposition header gives:
\* the name parameter of a form-data disposition, and the base name of the
\* filename parameter; "" without header or when the value does not parse.
ParsedFormName ==
    IF contentDispositionHeader \notin DOMAIN Header THEN ""
    ELSE LET r == ParseMediaType(Header[contentDispositionHeader][1])
         IN  IF r.err \/ r.mediatype # formDataDisposition THEN ""
             ELSE MapGet(r.params, "name")
ParsedFileName ==
    IF contentDispositionHeader \notin DOMAIN Header THEN ""
    ELSE LET r == ParseMediaType(Header[contentDispositionHeader][1])
         IN  IF r.err \/ MapGet(r.params, "filename") = "" THEN ""
             ELSE Base(MapGet(r.params, "filename"))

\* C20: disposition cache freshness: whatever header writes, setter calls and
\* accessor calls came before, FormName() and FileName() return what parsing
\* the current Content-Disposition header value gives, never a value of an
\* earlier header.
CacheFreshness ==
    /\ call.op = "FormName" => call.ret = ParsedFormName
    /\ call.op = "FileName" => call.ret = ParsedFileName

\* FormName() has returned a name although the header value is the bare
\* "form-data", which has no name parameter.
StaleNameReturned ==
    /\ call.op = "FormName"
    /\ contentDispositionHeader \in DOMAIN Header
    /\ Header[contentDispositionHeader] = <<formDataDisposition>>
    /\ call.ret # ""


\* The parameters of the part's Content-Disposition header; none without the
\* header or when its value does not parse.
HeaderParams ==
    IF contentDispositionHeader \notin DOMAIN Header THEN NoParams
    ELSE ParseMediaType(Header[contentDispositionHeader][1]).params

\* C21: name accessors: FormName() returns the name parameter exactly when the
\* type of the Content-Disposition, in lower case and without the white space
\* around it, is form-data, and "" otherwise (other type, no header, value that
\* does not parse); FileName() returns the base name of the filename
\* parameter whatever the type, and "" when there is none.
NameAccessors ==
    /\ call.op = "FormName" /\ DispositionType = formDataDisposition =>
           call.ret = MapGet(HeaderParams, "name")
    /\ call.op = "FormName" /\ DispositionType # formDataDisposition => call.ret = ""
    /\ call.op = "FileName" /\ MapGet(HeaderParams, "filename") # "" =>
           call.ret = Base(MapGet(HeaderParams, "filename"))
    /\ call.op = "FileName" /\ MapGet(HeaderParams, "filename") = "" => call.ret = ""

\* FormName() has returned "" for a form-data header with a name.
NameNotReturned ==
    /\ call.op = "FormName"
    /\ DispositionType = formDataDisposition
    /\ MapGet(HeaderParams, "name") # ""
    /\ call.ret = ""


\* ------------------------------------------------------- content sniffing

\* const sniffLen in DetectContentType: the size of the bufio.Reader and the
\* number of bytes peeked.
sniffLen == 512

\* Content streams: empty, shorter than sniffLen, of exactly sniffLen bytes
\* and longer; the last two begin like an HTML document.
Bytes8 == "abcdefgh"
Bytes64 == Bytes8 \o Bytes8 \o Bytes8 \o Bytes8 \o Bytes8 \o Bytes8 \o Bytes8 \o Bytes8
Bytes512 == Bytes64 \o Bytes64 \o Bytes64 \o Bytes64 \o Bytes64 \o Bytes64 \o Bytes64 \o Bytes64
HtmlTag == "<html>"
ContentData ==
    {"", "abc", HtmlTag \o SubSeq(Bytes512, 1, sniffLen - Len(HtmlTag)), HtmlTag \o Bytes512}
ContentKinds == {"bytes", "plain"}
\* len(p) of the reads made on p.Content: empty, short, and of sniffLen bytes
\* (the length from which a bufio.Reader with an empty buffer reads directly).
ContentBufSizes == {0, 100, sniffLen}

\* http.DetectContentType(signature), on the content of the model: an HTML
\* document, or text.
DetectType(signature) ==
    IF IsPrefix(HtmlTag, TrimLeft(signature)) THEN "text/html; charset=utf-8"
    ELSE "text/plain; charset=utf-8"

\* A Read of k bytes on the reader of kind kind over c.data at c.pos.
UnderRead(c, kind, k) ==
    ContentRead([ckind |-> kind, content |-> c.data, err |-> "nil"], c.pos, k)

\* bufio.Reader.fill, repeated by Peek while fewer than sniffLen bytes are
\* buffered and no error is noted.
RECURSIVE PeekFill(_)
PeekFill(c) ==
    IF Len(c.buf) >= sniffLen \/ c.err # "nil" THEN c
    ELSE LET r == UnderRead(c, c.under, sniffLen - Len(c.buf))
         IN  PeekFill([c EXCEPT !.buf = @ \o SubSeq(c.data, c.pos + 1, c.pos + r.n),
                                !.pos = @ + r.n,
                                !.err = r.err])

\* A Peek that hands the bytes out of the buffer instead of showing them.
PeekConsuming(c) == [PeekFill(c) EXCEPT !.buf = "", !.err = "nil"]

\* br.Peek(sniffLen): the reader afterwards; a noted error is given to the
\* caller of Peek (readErr) and no longer held.
Peek(c) ==
    LET f == PeekFill(c)
    IN  [f EXCEPT !.err = IF Len(f.buf) < sniffLen THEN "nil" ELSE @]

\* bufio.NewReaderSize(p.Content, sniffLen): a bufio.Reader of that size is
\* returned as it is.
NewReaderSize(c) ==
    IF c.kind = "bufio" THEN c
    ELSE [c EXCEPT !.kind = "bufio", !.under = c.kind, !.buf = "", !.err = "nil"]

\* bufio.Reader.Read(p) with len(p) = k: the bytes, the error and the reader
\* afterwards.
BufioRead(c, k) ==
    IF k = 0
    THEN [bytes |-> "", err |-> IF c.buf # "" THEN "nil" ELSE c.err,
          after |-> IF c.buf # "" THEN c ELSE [c EXCEPT !.err = "nil"]]
    ELSE IF c.buf = "" /\ c.err # "nil"
    THEN [bytes |-> "", err |-> c.err, after |-> [c EXCEPT !.err = "nil"]]
    ELSE IF c.buf = "" /\ k >= sniffLen
    THEN LET r == UnderRead(c, c.under, k)
         IN  [bytes |-> SubSeq(c.data, c.pos + 1, c.pos + r.n), err |-> r.err,
              after |-> [c EXCEPT !.pos = @ + r.n]]
    ELSE IF c.buf = ""
    THEN LET r == UnderRead(c, c.under, sniffLen)
             filled == SubSeq(c.data, c.pos + 1, c.pos + r.n)
             n == Min(k, r.n)
         IN  IF r.n = 0
             THEN [bytes |-> "", err |-> r.err, after |-> c]
             ELSE [bytes |-> Take(filled, n), err |-> "nil",
                   after |-> [c EXCEPT !.pos = @ + r.n, !.buf = Drop(filled, n), !.err = r.err]]
    ELSE [bytes |-> Take(c.buf, k), err |-> "nil", after |-> [c EXCEPT !.buf = Drop(@, k)]]

\* p.SetContent(content) with a reader of the given kind over data.
SetContent(kind, data) ==
    /\ Content' = [NilContent EXCEPT !.kind = kind, !.data = data]
    /\ got' = ""
    /\ call' = PartCall("SetContent", kind, "", FALSE)
    /\ UNCHANGED <<Header, disposition, dispositionParams, emptyParams, otherVars>>

\* p.DetectContentType(), on a part whose Content is set.
DetectContentType ==
    /\ Content.kind # "nil"
    /\ LET br == Peek(NewReaderSize(Content))
       IN  /\ Content' = br
           /\ Header' = MapSet(Header, contentTypeHeader, <<DetectType(br.buf)>>)
           /\ call' = PartCall("DetectContentType", "", DetectType(br.buf), FALSE)
    /\ UNCHANGED <<got, disposition, dispositionParams, emptyParams, otherVars>>

\* p.Content.Read(b) with len(b) = k, by whoever consumes the part.
ReadContent(k) ==
    /\ Content.kind # "nil"
    /\ LET r == IF Content.kind = "bufio" THEN BufioRead(Content, k)
                ELSE LET u == UnderRead(Content, Content.kind, k)
                     IN  [bytes |-> SubSeq(Content.data, Content.pos + 1, Content.pos + u.n),
                          err |-> u.err,
                          after |-> [Content EXCEPT !.pos = @ + u.n]]
       IN  /\ Content' = r.after
           /\ got' = got \o r.bytes
           /\ call' = PartCall("Content.Read", "", r.err, FALSE)
    /\ UNCHANGED <<Header, disposition, dispositionParams, emptyParams, otherVars>>

SetContentCall ==
    /\ Content.kind = "nil"
    /\ \E kind \in ContentKinds, data \in ContentData : SetContent(kind, data)
ReadContentCall == \E k \in ContentBufSizes : ReadContent(k)

NextContent == SetContentCall \/ DetectContentType \/ ReadContentCall \/ PartReset

SpecContent == InitPart /\ [][NextContent]_partVars

\* C22: content-type sniffing loses no bytes: with or without
\* DetectContentType, before, between or after reads, the bytes read from
\* p.Content are the bytes of the stream in their order, none is skipped or
\* repeated, and a reader that gets io.EOF has got all of them.
NoBytesLost ==
    Content.kind # "nil" =>
        /\ got \o Content.buf \o Drop(Content.data, Content.pos) = Content.data
        /\ call.op = "Content.Read" /\ call.ret = "EOF" => got = Content.data

\* A stream longer than sniffLen was sniffed and then read to its end.
SniffedAndReadOut ==
    /\ Content.kind = "bufio"
    /\ Len(Content.data) > sniffLen
    /\ call.op = "Content.Read"
    /\ call.ret = "EOF"
    /\ got = Content.data
    /\ Header[contentTypeHeader] = <<"text/html; charset=utf-8">>


\* C23: Part.Reset prepares the part for reuse: after Reset, whatever the part
\* held, the header has no entries, Content is nil, and FormName() and
\* FileName() both return "".
ResetForReuse ==
    call.op = "Reset" =>
        /\ Header = NoHeader
        /\ Content = NilContent
        /\ FormNameNow = ""
        /\ FileNameNow = ""

\* The part was reset, and FileName() returns a file name.
FileNameAfterReset ==
    /\ call.op = "Reset"
    /\ Header = NoHeader
    /\ FileNameNow # ""



\* ---------------------------------------------------------------------------
\* PartsFromReader and PartsFromRequest: the decoding sequence.

\* What r.NextPart() ends with once the parts are used up: io.EOF after the
\* closing boundary, io.EOF wrapped by NextPart for a stream that ends before
\* it, or another error.
ioEOF == <<"EOF">>
ReaderEnds ==
    {ioEOF, <<"multipart: NextPart", "EOF">>, <<"multipart: NextPart", "malformed MIME header line">>}

\* The parts of the wire: the Content-Disposition value and the body of each.
MaxWire == 2
WireParts ==
    {[header |-> "form-data; name=" \o DQ \o "foo" \o DQ, body |-> "ab"],
     [header |-> "attachment; filename=" \o DQ \o "d/g.txt" \o DQ, body |-> ""]}
Wires == UNION {[1..n -> WireParts] : n \in 0..MaxWire}

\* What r.MultipartReader() answers: nil, or the error of a request that is not
\* a multipart request.
RequestErrors == {NoError, <<"request Content-Type isn't multipart/form-data">>}

\* r.NextPart() / r.NextRawPart(): the next part of the wire, or the end.
ReaderNextPart(d) ==
    IF d.next <= Len(d.wire)
    THEN [part |-> d.next, err |-> NoError]
    ELSE [part |-> 0, err |-> d.end]

\* A Close that leaves the body where it is.
ClosePartKeeping(c) == c

\* part.Close(): the rest of the body is discarded, a later Read finds io.EOF.
ClosePart(c) == [c EXCEPT !.pos = Len(c.data)]

\* The sequence function up to its next yield, or to its return. The consumer
\* of a (nil, err) pair cannot keep the sequence going, its step is part of
\* this one.
DecodeStep ==
    /\ dec.pc = "loop"
    /\ \E np \in {ReaderNextPart(dec)} :
         IF dec.reqerr # NoError
         THEN /\ dec' = [dec EXCEPT !.yields = Append(@, [part |-> 0, err |-> dec.reqerr]),
                                    !.pc = "done"]
              /\ call' = PartCall("yield", "", "error", FALSE)
              /\ UNCHANGED <<Header, disposition, dispositionParams, Content, got>>
         ELSE IF ErrorsIs(np.err, "EOF")
         THEN /\ dec' = [dec EXCEPT !.pc = "done"]
              /\ call' = PartCall("return", "", "", FALSE)
              /\ UNCHANGED <<Header, disposition, dispositionParams, Content, got>>
         ELSE IF np.err = NoError
         THEN /\ Header' = MapSet(NoHeader, contentDispositionHeader, <<dec.wire[np.part].header>>)
              /\ disposition' = ""
              /\ dispositionParams' = NilParams
              /\ Content' = [NilContent EXCEPT !.kind = "bytes", !.data = dec.wire[np.part].body]
              /\ got' = ""
              /\ dec' = [dec EXCEPT !.yields = Append(@, [part |-> np.part, err |-> NoError]),
                                    !.next = @ + 1,
                                    !.open = @ \cup {np.part},
                                    !.pc = "yielded"]
              /\ call' = PartCall("yield", "", "part", FALSE)
         ELSE /\ dec' = [dec EXCEPT !.yields = Append(@, [part |-> 0, err |-> np.err]),
                                    !.pc = "done"]
              /\ call' = PartCall("yield", "", "error", FALSE)
              /\ UNCHANGED <<Header, disposition, dispositionParams, Content, got>>
    /\ UNCHANGED <<emptyParams, vars>>

\* The consumer's step for a yielded part returns, with next = FALSE when it
\* stops the iteration: the part is closed, then the loop goes on or returns.
ConsumerReturns(next) ==
    /\ dec.pc = "yielded"
    /\ Content' = ClosePart(Content)
    /\ dec' = [dec EXCEPT !.open = @ \ {dec.next - 1},
                          !.pc = IF next THEN "loop" ELSE "done",
                          !.stopped = ~next]
    /\ call' = PartCall("part.Close", "", "", FALSE)
    /\ UNCHANGED <<Header, disposition, dispositionParams, emptyParams, got, vars>>

\* The consumer asks the yielded part for its names.
ConsumerFormName == dec.pc = "yielded" /\ FormName
ConsumerFileName == dec.pc = "yielded" /\ FileName

\* PartsFromReader(r, raw) over a wire, or PartsFromRequest(r): the sequence is
\* about to be consumed, p := new(Part).
InitDecode ==
    /\ NewSource({<<>>})
    /\ Header = NoHeader
    /\ disposition = ""
    /\ dispositionParams = NilParams
    /\ emptyParams = NoParams
    /\ Content = NilContent
    /\ got = ""
    /\ call = [op |-> "PartsFromReader", arg |-> "", ret |-> "", fault |-> FALSE,
               after |-> "", ctype |-> <<>>]
    /\ \E w \in Wires, e \in ReaderEnds, q \in RequestErrors :
         dec = [NoDecoder EXCEPT !.wire = w, !.end = e, !.reqerr = q, !.pc = "loop"]

NextDecode ==
    \/ DecodeStep
    \/ \E next \in BOOLEAN : ConsumerReturns(next)
    \/ ConsumerFormName
    \/ ConsumerFileName
    \/ ReadContentCall

SpecDecode == InitDecode /\ [][NextDecode]_partVars

\* The reader's ways of reporting the end of its input: io.EOF, alone or under
\* the words of NextPart.
EndsOfInput == {e \in ReaderEnds : e[Len(e)] = "EOF"}

\* The items yielded so far that carry a part, and those that carry an error.
YieldedParts == {i \in 1..Len(dec.yields) : dec.yields[i].err = NoError}
YieldedErrors == {i \in 1..Len(dec.yields) : dec.yields[i].err # NoError}

\* What C24 says of the items yielded so far: the decode sequence yields one (Part, nil) per part of the reader in
\* wire order; it returns without yielding an error when the reader reports
\* end of input; on any other reader error it yields exactly one (nil, err)
\* as its final item; it yields nothing after the consumer stops; and
\* PartsFromRequest on a request that is not multipart yields exactly one
\* (nil, err).
DecodeOrder ==
    /\ \A i \in YieldedParts : dec.yields[i].part = i
    /\ \A i \in YieldedErrors :
         i = Len(dec.yields) /\ dec.yields[i].part = 0 /\ dec.pc = "done"
    /\ dec.stopped => dec.pc = "done" /\ dec.yields[Len(dec.yields)].err = NoError
    /\ dec.pc = "done" /\ ~dec.stopped /\ dec.reqerr = NoError =>
         /\ YieldedParts = 1..Len(dec.wire)
         /\ IF dec.end \in EndsOfInput
            THEN YieldedErrors = {}
            ELSE YieldedErrors = {Len(dec.wire) + 1}
                 /\ dec.yields[Len(dec.wire) + 1].err = dec.end
    /\ dec.pc = "done" /\ dec.reqerr # NoError =>
         dec.yields = <<[part |-> 0, err |-> dec.reqerr]>>

\* C24: decode sequence: at every moment the yielded items are one (Part, nil)
\* per part in wire order, with no error at end of input and exactly one final
\* (nil, err) on another reader error or on a request that is not multipart;
\* and once the sequence has returned, after a stop by the consumer too,
\* nothing more is yielded.
DecodeSequence ==
    /\ []DecodeOrder
    /\ [][dec.pc = "done" => dec'.yields = dec.yields]_partVars

\* Two parts were yielded in wire order, then the reader's error, and the
\* sequence returned.
TwoPartsThenError ==
    /\ dec.pc = "done"
    /\ Len(dec.wire) = 2
    /\ Len(dec.yields) = 3
    /\ dec.yields[1].part = 1
    /\ dec.yields[2].part = 2
    /\ dec.yields[3] = [part |-> 0, err |-> dec.end]



\* C28: decoded part validity: the one Part of the sequence carries each
\* yielded part in turn, and the content of a yielded part is closed when the
\* consumer's step returns, before the next part is fetched and also when the
\* consumer stops: at most one content stream is open at any time, none is
\* open outside the consumer's step, and a read of the content after the step
\* finds io.EOF and no bytes.
DecodedPartValidity ==
    /\ Cardinality(dec.open) <= 1
    /\ dec.pc = "yielded" => dec.open = {Len(dec.yields)}
    /\ dec.pc \in {"loop", "done"} =>
         /\ dec.open = {}
         /\ Content.kind # "nil" => Content.pos = Len(Content.data)
         /\ call.op = "Content.Read" => call.ret = "EOF"

\* The consumer stopped before reading the two bytes of the part's body, and
\* a read of the content it kept found io.EOF.
ReadAfterStop ==
    /\ dec.stopped
    /\ dec.open = {}
    /\ Content.data = "ab"
    /\ got = ""
    /\ call.op = "Content.Read"
    /\ call.ret = "EOF"



\* ---------------------------------------------------------------------------
\* Content errors on Read.

\* Part sequences with parts whose content fails at once or breaks off.
FailingItems == {PartFoo, PartFailing, PartBroken}
FailingLists == SeqsUpTo(FailingItems, MaxParts)

InitFailing == NewSource(FailingLists) /\ NewPart

\* Read with a short buffer, with one that takes a heading and the content,
\* and with one that a heading fills exactly; calls go on after an error.
FailingBufSizes == {SmallBuf, HeadingLen, OneShot}
FailingRead == (\E k \in FailingBufSizes : Read(k)) /\ UNCHANGED partVars

SpecFailing == InitFailing /\ [][FailingRead]_vars

\* C25: content error on Read: a Read in which the content reader of the
\* active part returns an error other than io.EOF returns that error and the
\* number of bytes delivered in the call, the heading bytes drained plus the
\* content bytes read; the part stays active and the call produces no trailer.
ContentErrorOnRead ==
    [][LET cur == IF res'.pulled = 1 THEN pullPos' ELSE lastPart
           item == pullSeq'[cur]
           staged == IF res'.pulled = 1
                     THEN populatePartHeading(firstHeadingWritten, boundary, item.header)
                     ELSE buffered
           drained == Len(staged) - Len(buffered')
           cr == ContentRead(item, cpos[cur], res'.plen - drained)
       IN  res'.op = "Read" /\ ~closed /\ ~finalizing /\ cur # 0 /\ ~item.isErr
           /\ cr.err \notin {"nil", "EOF"} =>
               /\ res'.err = cr.err
               /\ res'.n = drained + cr.n
               /\ cpos'[cur] = cpos[cur] + cr.n
               /\ lastPart' = cur
               /\ ~finalizing'
               /\ \A i \in 1..Len(emit') : emit'[i].kind # "tail"
      ]_vars

\* One Read has delivered a whole heading and the two bytes of a content that
\* broke off, and returned the content's error.
HeadingContentAndError ==
    /\ res.op = "Read"
    /\ res.err = PartBroken.err
    /\ res.pulled = 1
    /\ res.n = HeadingLen + 2
    /\ buffered = ""
    /\ lastPart = pullPos
    /\ pullSeq[lastPart] = PartBroken



\* What C26 says of one Read: it pulls at most one item, and only when no
\* part is active and the Source is not finalizing; the item pulled is the
\* next of the sequence, and the content of the part before it is used up; a
\* part that was active at the content read is released if and only if that
\* read reported io.EOF.
OnePullPerRead ==
    LET pos == IF pullSet THEN pullPos ELSE 0
        cur == IF res'.pulled = 1 THEN pullPos' ELSE lastPart
        item == pullSeq'[cur]
        staged == IF res'.pulled = 1
                  THEN populatePartHeading(firstHeadingWritten, boundary, item.header)
                  ELSE buffered
        drained == Len(staged) - Len(buffered')
        cr == ContentRead(item, cpos[cur], res'.plen - drained)
    IN  res'.op = "Read" /\ ~closed =>
            /\ pullPos' \in {pos, pos + 1}
            /\ res'.pulled = pullPos' - pos
            /\ pullPos' = pos + 1 =>
                   /\ lastPart = 0
                   /\ ~finalizing
                   /\ pos >= 1 /\ ~pullSeq'[pos].isErr =>
                          cpos[pos] = Len(pullSeq'[pos].content)
            /\ ~finalizing /\ cur # 0 /\ ~item.isErr =>
                   /\ lastPart' \in {0, cur}
                   /\ lastPart' = 0 <=> cr.err = "EOF"

\* C26: single active part: the Source refers to at most one part, the one
\* pulled last; every Read keeps to the pull discipline above; and when the
\* sequence of a Source that was not closed or reset is used up, each of its
\* items was pulled once, in order.
SingleActivePart ==
    /\ [](/\ lastPart \in {0, pullPos}
          /\ pullPos <= Len(pullSeq)
          /\ finalizing => lastPart = 0
          /\ finalizing /\ ~closed /\ resets = 0 =>
                 pullSeq = parts /\ pullPos = Len(parts))
    /\ [][OnePullPerRead]_vars

\* The second part is active and the content of the first was read to its
\* end before.
SecondPartActive ==
    /\ res.op = "Read"
    /\ pullPos = 2
    /\ lastPart = 2
    /\ ~pullSeq[1].isErr
    /\ pullSeq[1].content # ""
    /\ cpos[1] = Len(pullSeq[1].content)



\* The content bytes of part i among the segments e.
BodyOf(e, i) ==
    Concat([j \in 1..Len(e) |-> IF e[j].kind = "body" /\ e[j].part = i THEN e[j].bytes ELSE ""])

\* C27: bulk-copy content transfer: a WriteTo of parts that do not fail, to a
\* sink that does not fail, returns without error whichever way the content
\* of a part is transferred, the content's WriteTo, the sink's ReadFrom or the
\* copy loop: the heading of each part is in the sink, all bytes of its
\* content follow it, and the count returned is the number of bytes in the
\* sink.
BulkCopyTransfers ==
    res.op = "WriteTo" =>
        /\ res.err = "nil"
        /\ res.n = Len(Flat(res.sink))
        /\ \A i \in 1..Len(parts) :
               /\ BodyOf(res.sink, i) = parts[i].content
               /\ \E j \in 1..Len(res.sink) :
                      /\ res.sink[j].kind = "head" /\ res.sink[j].part = i
                      /\ \A l \in 1..Len(res.sink) :
                             res.sink[l].kind = "body" /\ res.sink[l].part = i => l = j + 1

\* A WriteTo of a part whose content has no WriteTo, to a sink without
\* ReadFrom, did not return: the heading is in the sink, the content is not.
CopyLoopPanics ==
    /\ res.op = "WriteTo"
    /\ res.err = "panic"
    /\ parts = <<PartPlain>>
    /\ Len(res.sink) = 1
    /\ res.sink[1].kind = "head"
    /\ BodyOf(res.sink, 1) = ""



\* Exactly 2 * RandLen characters, each a lowercase hexadecimal digit.
IsGenerated(b) ==
    /\ Len(b) = 2 * RandLen
    /\ \A i \in 1..Len(b) : \E d \in 0..15 : At(b, i) = HexDigit(d)

\* C29: fresh boundary on construction and Reset: after NewSource and after
\* every Reset the boundary is 60 lowercase hexadecimal characters, the
\* encoding of 30 bytes read from the random source in that call, whatever
\* the boundary was before, also one set with SetBoundary; the earlier variant
\* with a slice for the random bytes, nil or filled before, gives the same
\* string as the one with an array.
FreshBoundary ==
    /\ [](res.op \in {"NewSource", "Reset"} =>
              /\ IsGenerated(boundary)
              /\ \E seed \in RandSeeds :
                     /\ boundary = populateRandomBoundary(seed)
                     /\ boundary = populateRandomBoundarySlice(<<>>, seed)
                     /\ \A old \in RandSeeds :
                            boundary = populateRandomBoundarySlice(RandBytes(old), seed))
    /\ [][res'.op = "Reset" => IsGenerated(boundary') /\ boundary' # "b"]_vars

\* A Reset has generated a boundary from other random bytes than NewSource.
BoundaryRenewed ==
    /\ res.op = "Reset"
    /\ resets = 1
    /\ IsGenerated(boundary)
    /\ boundary = populateRandomBoundary(200)
    /\ boundary # populateRandomBoundary(7)



\* C30: closed is absorbing for SetBoundary too: on a closed Source every
\* SetBoundary returns an error and leaves the fields of the Source as they
\* were.
ClosedRefusesSetBoundary ==
    [][closed /\ res'.op = "SetBoundary" => res'.err # "nil" /\ UNCHANGED srcVars]_vars

\* SetBoundary has returned nil on a closed Source and set its boundary.
BoundarySetWhenClosed ==
    /\ closed
    /\ res.op = "SetBoundary"
    /\ res.err = "nil"
    /\ res.arg = "b"
    /\ boundary = "b"



\* C31: delimiter consistency: in the message a reader holds at io.EOF, every
\* part delimiter and the closing trailer carry one boundary string, the one
\* Boundary() returns then, however SetBoundary calls, accepted or refused,
\* were placed between the Reads.
DelimiterConsistency ==
    ReadComplete => \A i \in 1..Len(emit) : DelimiterUses(emit[i], Boundary)

\* A reader holds a whole message whose first delimiter carries the generated
\* boundary and whose second delimiter and trailer carry the one SetBoundary
\* put in force between the two parts.
MixedDelimiters ==
    /\ ReadComplete
    /\ Boundary = "b"
    /\ \E i, j, l \in 1..Len(emit) :
           /\ emit[i].kind = "head" /\ emit[i].part = 1
           /\ \E seed \in RandSeeds :
                  IsPrefix("--" \o populateRandomBoundary(seed) \o CRLF, emit[i].bytes)
           /\ emit[j].kind = "head" /\ emit[j].part = 2
           /\ IsPrefix("\r\n--b\r\n", emit[j].bytes)
           /\ emit[l].kind = "tail"
           /\ emit[l].bytes = Trailer("b")



\* Read has returned an error that the part sequence yielded.
SequenceBroken == pullSet /\ \E i \in 1..pullPos : pullSeq[i].isErr

\* C32: a broken stream never completes: once Read has returned an error of
\* the part sequence, no Read on the Source, not reset since, delivers bytes
\* of the closing trailer or returns io.EOF.
BrokenNeverCompletes ==
    SequenceBroken =>
        /\ ~ReadComplete
        /\ ~finalizing
        /\ \A i \in 1..Len(emit) : emit[i].kind # "tail"

\* The sequence yielded a part and then an error as its last item; Read
\* returned the error, later the whole trailer, and now io.EOF.
TruncatedLooksComplete ==
    /\ ReadComplete
    /\ pullPos = 2
    /\ Len(pullSeq) = 2
    /\ pullSeq[1] = PartFoo
    /\ pullSeq[2].isErr
    /\ emit[Len(emit)].kind = "tail"
    /\ emit[Len(emit)].bytes = Trailer(Boundary)
    /\ EndsWith(Out, "fo" \o Trailer(Boundary))



\* C33: SetFileName is total: whatever state the part is in, also as NewPart
\* or Reset left it, SetFileName(f) completes without a fault, and afterwards
\* the Content-Disposition header carries the filename f.
SetFileNameTotal ==
    call.op = "SetFileName" =>
        /\ ~call.fault
        /\ MapGet(HeaderParams, "filename") = call.arg

\* SetFileName was called on a part that no setter or accessor had touched
\* since NewPart or Reset, and faulted: the header carries no filename.
SetFileNameFaulted ==
    /\ call.op = "SetFileName"
    /\ call.fault
    /\ dispositionParams = NilParams
    /\ disposition = ""
    /\ Header = NoHeader



\* Headers of another part, one that no method was called on yet: without a
\* Content-Disposition, and with each value of the model, among them one that
\* does not parse.
OtherHeaders ==
    {NoHeader} \cup {MapSet(NoHeader, contentDispositionHeader, <<v>>) : v \in DispositionValues}

\* C34: part isolation: whatever was called on this part, another part
\* answers FormName() and FileName() as it would in a program where this part
\* was never touched, and the map a setter has written to belongs to this
\* part alone.
PartIsolation ==
    /\ \A h \in OtherHeaders :
           /\ FormNameResult(h, "", NilParams, emptyParams)
                  = FormNameResult(h, "", NilParams, NoParams)
           /\ FileNameResult(h, "", NilParams, emptyParams)
                  = FileNameResult(h, "", NilParams, NoParams)
    /\ call.op \in {"SetFormName", "SetFileName"} /\ ~call.fault =>
           dispositionParams.ref # SharedParams.ref

\* SetFileName has written the file name into the map all parts share, and
\* a new part without any header answers FileName() with it.
FileNameLeaked ==
    /\ call.op = "SetFileName"
    /\ ~call.fault
    /\ dispositionParams.ref = SharedParams.ref
    /\ MapGet(emptyParams, "filename") = call.arg
    /\ FileNameResult(NoHeader, "", NilParams, emptyParams) = Base(call.arg)
    /\ Base(call.arg) # ""

====
